---- MODULE Spec2Model ----
(***************************************************************************)
(* Model of the JSON command translator (src/translator.py) running on top *)
(* of the JIRA connector (src/connector.py).                               *)
(*                                                                         *)
(* One execute() call is one action.  The handlers are operators that      *)
(* thread a context record (remote state, the trace of connector calls,    *)
(* the trace of calls on the jira client, the pending exception) through   *)
(* the statements of the Python code; a statement is skipped when an       *)
(* exception is pending, which is how Python unwinds to the except clause  *)
(* of execute().                                                           *)
(***************************************************************************)
EXTENDS Integers, Sequences, FiniteSets, TLC

(***************************************************************************)
(* Bounds                                                                  *)
(***************************************************************************)
\* The jira-client call (1-based, counted within one execute()) that the
\* remote service rejects with HTTP 403; 0 = it rejects none of them.
MaxPlan == 14
\* The longest list a document gives as addComment
MaxComments == 2
\* The longest list _normalize_comments() is applied to on its own
MaxItems == 3
\* The number of execute() calls made one after the other on one translator,
\* and the last request of a command that the remote service may refuse then
MaxCommands == 2
MaxSessionPlan == 1
\* The last request of an update operation that the remote service may refuse
MaxUpdatePlan == 3
\* The last request of the command of a chat flow that it may refuse
MaxChatPlan == 6

(***************************************************************************)
(* JSON values of a command document.  Every value is a record of the same *)
(* shape: t is the Python type, s the text str() gives, items the elements *)
(* of a list.                                                              *)
(***************************************************************************)
Absent == [t |-> "absent", s |-> "None", items |-> <<>>]
Null == [t |-> "null", s |-> "None", items |-> <<>>]
StrV(x) == [t |-> "str", s |-> x, items |-> <<>>]
NumV(x) == [t |-> "num", s |-> x, items |-> <<>>]
ObjV(x) == [t |-> "obj", s |-> x, items |-> <<>>]
ListV(xs) == [t |-> "list", s |-> "[..]", items |-> xs]

AllKeys ==
  {"type", "project", "summary", "description", "issueType", "issue_type",
   "fields", "changeStatus", "addComment", "issueKey", "key", "issue",
   "jql", "status", "maxResults"}

\* A document that has exactly the keys of f
Doc(f) == [k \in AllKeys |-> IF k \in DOMAIN f THEN f[k] ELSE Absent]

\* key in data
Has(data, k) == data[k].t # "absent"
\* data.get(k): None when the key is missing
Get(data, k) == IF Has(data, k) THEN data[k] ELSE Null
\* data.get(k, default)
GetDefault(data, k, default) == IF Has(data, k) THEN data[k] ELSE default
\* data[k], evaluated only under "k in data"
Item(data, k) == data[k]

\* Python truth value of a JSON value
Truthy(v) ==
  CASE v.t = "str" -> v.s # ""
    [] v.t = "num" -> v.s # "0"
    [] v.t = "obj" -> v.s # "{}"
    [] v.t = "list" -> v.items # <<>>
    [] OTHER -> FALSE
\* a or b
Or(a, b) == IF Truthy(a) THEN a ELSE b
\* isinstance(v, str), isinstance(v, dict), isinstance(v, list)
IsStr(v) == v.t = "str"
IsDict(v) == v.t = "obj"
IsList(v) == v.t = "list"
\* str(v)
PyStr(v) == v.s

(***************************************************************************)
(* The remote service (the JIRA server behind jira.JIRA)                   *)
(***************************************************************************)
IssueKeys == {"K1", "K2", "N1"}
NewKeys == <<"N1">>
Projects == {"KAN"}
Statuses == {"To Do", "In Progress", "Done"}

\* The workflow: the transitions available in a status, by name, and the
\* status a transition leads to (a transition is named after its target).
Workflow(status) ==
  CASE status = "To Do" -> <<"In Progress">>
    [] status = "In Progress" -> <<"To Do", "Done">>
    [] OTHER -> <<>>
Range(seq) == {seq[i] : i \in DOMAIN seq}

NoIssue ==
  [exists |-> FALSE, id |-> "", project |-> "", summary |-> "",
   description |-> "", status |-> "", issuetype |-> "", extra |-> "{}",
   assignee |-> "", comments |-> <<>>]
IssueId(key) ==
  CASE key = "K1" -> "10001" [] key = "K2" -> "10002" [] OTHER -> "10003"

StoredIssue(status) ==
  [exists |-> TRUE, id |-> IssueId("K1"), project |-> "KAN", summary |-> "s0",
   description |-> "d0", status |-> status, issuetype |-> "Task",
   extra |-> "{}", assignee |-> "me", comments |-> <<>>]
InitRemotes ==
  {[k \in IssueKeys |-> IF k = "K1" THEN StoredIssue(st) ELSE NoIssue] :
     st \in {"To Do", "In Progress"}}

Exists(remote, key) == key \in DOMAIN remote /\ remote[key].exists

\* The Issue resource the client returns for a stored issue
IssueObject(remote, key) ==
  [key |-> key, id |-> remote[key].id, summary |-> remote[key].summary,
   description |-> remote[key].description, status |-> remote[key].status,
   assignee |-> remote[key].assignee, reporter |-> "me",
   project |-> remote[key].project,
   comments |-> remote[key].comments]
NoObject ==
  [key |-> "", id |-> "", summary |-> "", description |-> "", status |-> "",
   assignee |-> "", reporter |-> "", project |-> "", comments |-> <<>>]

(***************************************************************************)
(* Exceptions and the context threaded through a handler                   *)
(***************************************************************************)
NoErr == [raised |-> FALSE, exc |-> "", status_code |-> 0, text |-> ""]
JIRAError(code, text) ==
  [raised |-> TRUE, exc |-> "JIRAError", status_code |-> code, text |-> text]
ValueError(text) ==
  [raised |-> TRUE, exc |-> "ValueError", status_code |-> 0, text |-> text]

NoValue == [ok |-> FALSE, type |-> "none"]

NewCtx(remote, plan) ==
  [remote |-> remote, plan |-> plan, trace |-> <<>>, jtrace |-> <<>>,
   err |-> NoErr, ret |-> NoObject, rets |-> <<>>, actions |-> <<>>,
   value |-> NoValue]

\* raise e
Raise(ctx, e) == IF ctx.err.raised THEN ctx ELSE [ctx EXCEPT !.err = e]
\* Mutant: the envelope is returned although a call before it has failed
ReturnAnyway(ctx, v) == [ctx EXCEPT !.value = v, !.err = NoErr]

\* return v
Return(ctx, v) == IF ctx.err.raised THEN ctx ELSE [ctx EXCEPT !.value = v]

(***************************************************************************)
(* Calls on the jira client.  Each is one request to the remote service:   *)
(* it is recorded in jtrace with its outcome, and it is rejected when the  *)
(* service refuses it (plan) or when the request is invalid in the current *)
(* remote state.                                                           *)
(***************************************************************************)
\* caller: the connector call (its position in trace) that made the request;
\* code, text: the HTTP status and the error text of the response
JCall(ctx, op, key, field, val, code, text) ==
  [op |-> op, key |-> key, field |-> field, val |-> val, jql |-> <<>>,
   caller |-> Len(ctx.trace), ok |-> code = 200, code |-> code, text |-> text]
Refused(ctx) == Len(ctx.jtrace) + 1 = ctx.plan
Rejected(ctx, op, key, field, val, code, text) ==
  [ctx EXCEPT !.jtrace = Append(@, JCall(ctx, op, key, field, val, code, text)),
              !.err = JIRAError(code, text)]
Accepted(ctx, op, key, field, val) ==
  [ctx EXCEPT !.jtrace = Append(@, JCall(ctx, op, key, field, val, 200, "OK"))]

\* JIRA.issue(key)
jira_issue(ctx, key) ==
  IF ctx.err.raised THEN ctx
  ELSE IF Refused(ctx) THEN Rejected(ctx, "issue", key, "", "", 403, "Forbidden")
  ELSE IF ~Exists(ctx.remote, key)
    THEN Rejected(ctx, "issue", key, "", "", 404, "Issue Does Not Exist")
  ELSE [Accepted(ctx, "issue", key, "", "") EXCEPT
          !.ret = IssueObject(ctx.remote, key)]

\* Issue.update(fields={field: val}); field "*" stands for an open field map
ApplyUpdate(issue, field, val) ==
  CASE field = "summary" -> [issue EXCEPT !.summary = val]
    [] field = "description" -> [issue EXCEPT !.description = val]
    [] OTHER -> IF val = "{}" THEN issue ELSE [issue EXCEPT !.extra = val]
jira_update(ctx, key, field, val) ==
  IF ctx.err.raised THEN ctx
  ELSE IF Refused(ctx) THEN Rejected(ctx, "update", key, field, val, 403, "Forbidden")
  ELSE [Accepted(ctx, "update", key, field, val) EXCEPT
          !.remote[key] = ApplyUpdate(@, field, val)]

\* JIRA.create_issue(fields=...)
FreeKeys(remote) == {i \in DOMAIN NewKeys : ~remote[NewKeys[i]].exists}
jira_create_issue(ctx, project, summary, description, issuetype, extra) ==
  IF ctx.err.raised THEN ctx
  ELSE IF Refused(ctx)
    THEN Rejected(ctx, "create_issue", project, "summary", summary, 403, "Forbidden")
  ELSE IF project \notin Projects \/ FreeKeys(ctx.remote) = {}
    THEN Rejected(ctx, "create_issue", project, "summary", summary, 400,
                  "project is required")
  ELSE LET key == NewKeys[CHOOSE i \in FreeKeys(ctx.remote) :
                            \A j \in FreeKeys(ctx.remote) : i <= j]
           issue == [exists |-> TRUE, id |-> IssueId(key), project |-> project,
                     summary |-> summary, description |-> description,
                     status |-> "To Do", issuetype |-> issuetype,
                     extra |-> extra, assignee |-> "None", comments |-> <<>>]
           remote2 == [ctx.remote EXCEPT ![key] = issue]
       IN [Accepted(ctx, "create_issue", project, "summary", summary) EXCEPT
             !.remote = remote2, !.ret = IssueObject(remote2, key)]

\* JIRA.transition_issue(key, name)
jira_transition_issue(ctx, key, name) ==
  IF ctx.err.raised THEN ctx
  ELSE IF Refused(ctx)
    THEN Rejected(ctx, "transition_issue", key, "status", name, 403, "Forbidden")
  ELSE IF ~Exists(ctx.remote, key)
    THEN Rejected(ctx, "transition_issue", key, "status", name, 404,
                  "Issue Does Not Exist")
  ELSE IF name \notin Range(Workflow(ctx.remote[key].status))
    THEN Rejected(ctx, "transition_issue", key, "status", name, 400,
                  "Invalid transition name")
  ELSE [Accepted(ctx, "transition_issue", key, "status", name) EXCEPT
          !.remote[key].status = name]

\* JIRA.add_comment(key, body)
jira_add_comment(ctx, key, body) ==
  IF ctx.err.raised THEN ctx
  ELSE IF Refused(ctx)
    THEN Rejected(ctx, "add_comment", key, "comment", body, 403, "Forbidden")
  ELSE IF ~Exists(ctx.remote, key)
    THEN Rejected(ctx, "add_comment", key, "comment", body, 404,
                  "Issue Does Not Exist")
  ELSE [Accepted(ctx, "add_comment", key, "comment", body) EXCEPT
          !.remote[key].comments = Append(@, body)]

\* JIRA.transitions(key)
jira_transitions(ctx, key) ==
  IF ctx.err.raised THEN ctx
  ELSE IF Refused(ctx) THEN Rejected(ctx, "transitions", key, "", "", 403, "Forbidden")
  ELSE IF ~Exists(ctx.remote, key)
    THEN Rejected(ctx, "transitions", key, "", "", 404, "Issue Does Not Exist")
  ELSE [Accepted(ctx, "transitions", key, "", "") EXCEPT
          !.rets = Workflow(ctx.remote[key].status)]

\* JIRA.search_issues(jql, startAt=0, maxResults=n, fields="*all").  A query
\* is the sequence of the text fragments it was built from.
MyOpenJql == <<"assignee = currentUser() AND status != Done ORDER BY updated DESC">>
KeyOrder == <<"K1", "K2", "N1">>
Matches(remote, jql, key) ==
  /\ remote[key].exists
  /\ CASE Len(jql) = 2 /\ jql[1] = "project = " -> remote[key].project = jql[2]
       [] Len(jql) = 5 /\ jql[1] = "project = " ->
            remote[key].project = jql[2] /\ remote[key].status = jql[4]
       [] Len(jql) = 3 /\ jql[1] = "project = " -> remote[key].project = jql[2]
       [] jql = MyOpenJql ->
            remote[key].assignee = "me" /\ remote[key].status # "Done"
       [] jql = <<"status = Done">> -> remote[key].status = "Done"
       [] jql = <<"reporter = currentUser()">> -> TRUE
       [] jql = <<"summary ~ s1">> -> remote[key].summary = "s1"
       [] OTHER -> FALSE
ValidJql(jql) ==
  \/ Len(jql) \in {2, 5} /\ jql[1] = "project = " /\ jql[2] \in Projects
       /\ (Len(jql) = 5 => jql[4] \in Statuses)
  \/ jql \in {MyOpenJql, <<"status = Done">>, <<"summary ~ s1">>,
             <<"reporter = currentUser()">>}
  \/ Len(jql) = 3 /\ jql[1] = "project = " /\ jql[2] \in Projects
       /\ jql[3] = " ORDER BY updated DESC"
RECURSIVE Select(_, _, _)
Select(remote, jql, i) ==
  IF i > Len(KeyOrder) THEN <<>>
  ELSE (IF Matches(remote, jql, KeyOrder[i])
          THEN <<IssueObject(remote, KeyOrder[i])>> ELSE <<>>)
       \o Select(remote, jql, i + 1)
IntOf(s) ==
  CASE s = "0" -> 0 [] s = "1" -> 1 [] s = "7" -> 7 [] s = "10" -> 10
    [] s = "100" -> 100 [] OTHER -> 50
Limit(seq, n) == IF n = 0 \/ Len(seq) <= n THEN seq ELSE SubSeq(seq, 1, n)
WithJql(ctx, jql) == [ctx EXCEPT !.jtrace[Len(ctx.jtrace)].jql = jql]
jira_search_issues(ctx, jql, max_results) ==
  IF ctx.err.raised THEN ctx
  ELSE IF Refused(ctx)
    THEN WithJql(Rejected(ctx, "search_issues", "", "maxResults", max_results,
                          403, "Forbidden"), jql)
  ELSE IF ~ValidJql(jql)
    THEN WithJql(Rejected(ctx, "search_issues", "", "maxResults", max_results,
                          400, "Error in the JQL Query"), jql)
  ELSE [WithJql(Accepted(ctx, "search_issues", "", "maxResults", max_results), jql)
          EXCEPT !.rets = Limit(Select(ctx.remote, jql, 1), IntOf(max_results))]

(***************************************************************************)
(* JiraConnector (src/connector.py).  A call of a connector method is      *)
(* recorded in trace when it is made, whatever its outcome.                *)
(***************************************************************************)
Call(ctx, op, args, jql) ==
  [ctx EXCEPT !.trace = Append(@, [op |-> op, args |-> args, jql |-> jql])]

get_issue(ctx, issue_key) ==
  IF ctx.err.raised THEN ctx
  ELSE jira_issue(Call(ctx, "get_issue", <<issue_key>>, <<>>), issue_key)

\* Mutant: the connector adds an ordering to the query
search_issuesOrdered(ctx, jql, max_results) ==
  jira_search_issues(ctx, jql \o <<" ORDER BY updated DESC">>, max_results)

search_issues(ctx, jql, max_results) ==
  jira_search_issues(ctx, jql, max_results)

\* Mutant: the status is left out of the query
ProjectJqlNoStatus(project_key, status) == <<"project = ", project_key>>

\* jql = f"project = {project_key}"; if status: jql += f' AND status = "{status}"'
ProjectJql(project_key, status) ==
  <<"project = ", project_key>>
    \o (IF Truthy(status) THEN <<" AND status = \"", PyStr(status), "\"">> ELSE <<>>)

get_project_issues(ctx, project_key, status, max_results) ==
  IF ctx.err.raised THEN ctx
  ELSE search_issues(Call(ctx, "get_project_issues",
                          <<project_key, PyStr(status), max_results>>, <<>>),
                     ProjectJql(project_key, status), max_results)

get_my_open_issues(ctx, max_results) ==
  IF ctx.err.raised THEN ctx
  ELSE search_issues(Call(ctx, "get_my_open_issues", <<max_results>>, <<>>),
                     MyOpenJql, max_results)

create_issue(ctx, project, summary, description, issue_type, field_overrides) ==
  IF ctx.err.raised THEN ctx
  ELSE jira_create_issue(
         Call(ctx, "create_issue",
              <<project, summary, description, issue_type, field_overrides>>, <<>>),
         project, summary, description, issue_type, field_overrides)

\* issue.update(fields=...) on the Issue that self._jira.issue() returned
UpdateFetched(ctx, field, val) == jira_update(ctx, ctx.ret.key, field, val)

\* a variant that returns the issue it fetched before the update
update_summaryUnfetched(ctx, issue_key, summary) ==
  IF ctx.err.raised THEN ctx
  ELSE UpdateFetched(
         jira_issue(Call(ctx, "update_summary", <<issue_key, summary>>, <<>>),
                    issue_key),
         "summary", summary)

update_description(ctx, issue_key, description) ==
  IF ctx.err.raised THEN ctx
  ELSE jira_issue(
         UpdateFetched(
           jira_issue(Call(ctx, "update_description", <<issue_key, description>>, <<>>),
                      issue_key),
           "description", description),
         issue_key)

update_summary(ctx, issue_key, summary) ==
  IF ctx.err.raised THEN ctx
  ELSE jira_issue(
         UpdateFetched(
           jira_issue(Call(ctx, "update_summary", <<issue_key, summary>>, <<>>),
                      issue_key),
           "summary", summary),
         issue_key)

transition_issue(ctx, issue_key, transition_name) ==
  IF ctx.err.raised THEN ctx
  ELSE jira_transition_issue(
         Call(ctx, "transition_issue", <<issue_key, transition_name>>, <<>>),
         issue_key, transition_name)

add_comment(ctx, issue_key, body) ==
  IF ctx.err.raised THEN ctx
  ELSE jira_add_comment(Call(ctx, "add_comment", <<issue_key, body>>, <<>>),
                        issue_key, body)

CommentObject(body, i) ==
  [id |-> i, author |-> "me", body |-> body, created |-> "t"]
\* list(issue.fields.comment.comments)
CommentList(ctx) ==
  IF ctx.err.raised THEN ctx
  ELSE [ctx EXCEPT !.rets = [i \in DOMAIN ctx.ret.comments |->
                               CommentObject(ctx.ret.comments[i], i)]]
\* a variant that leaves a comment on the issue it reads
get_commentsMarking(ctx, issue_key) ==
  IF ctx.err.raised THEN ctx
  ELSE CommentList(
         jira_issue(
           jira_add_comment(Call(ctx, "get_comments", <<issue_key>>, <<>>),
                            issue_key, "seen"),
           issue_key))
get_comments(ctx, issue_key) ==
  IF ctx.err.raised THEN ctx
  ELSE CommentList(jira_issue(Call(ctx, "get_comments", <<issue_key>>, <<>>),
                              issue_key))

update_issue_fields(ctx, issue_key, fields) ==
  IF ctx.err.raised THEN ctx
  ELSE jira_issue(
         UpdateFetched(
           jira_issue(Call(ctx, "update_issue_fields", <<issue_key, fields>>, <<>>),
                      issue_key),
           "*", fields),
         issue_key)

\* a variant that answers with the list of an issue that is still to do
available_transitionsCached(ctx, issue_key) ==
  IF ctx.err.raised THEN ctx
  ELSE [jira_transitions(Call(ctx, "available_transitions", <<issue_key>>, <<>>),
                         issue_key) EXCEPT !.rets = Workflow("To Do")]

available_transitions(ctx, issue_key) ==
  IF ctx.err.raised THEN ctx
  ELSE jira_transitions(Call(ctx, "available_transitions", <<issue_key>>, <<>>),
                        issue_key)

(***************************************************************************)
(* JiraCommandTranslator (src/translator.py): helpers                      *)
(***************************************************************************)
_serialize_issue(issue) ==
  [key |-> issue.key, id |-> issue.id, summary |-> issue.summary,
   description |-> issue.description, status |-> issue.status,
   assignee |-> issue.assignee, reporter |-> issue.reporter,
   project |-> issue.project]

\* Mutant: empty comments are left out
_normalize_commentsNoEmpty(add_comment_value) ==
  IF add_comment_value.t \in {"null", "absent"} THEN <<>>
  ELSE IF IsStr(add_comment_value) THEN <<add_comment_value.s>>
  ELSE IF IsList(add_comment_value)
    THEN SelectSeq([i \in DOMAIN add_comment_value.items |->
                      PyStr(add_comment_value.items[i])],
                   LAMBDA s : s # "")
  ELSE <<PyStr(add_comment_value)>>

_normalize_comments(add_comment_value) ==
  IF add_comment_value.t \in {"null", "absent"} THEN <<>>
  ELSE IF IsStr(add_comment_value) THEN <<add_comment_value.s>>
  ELSE IF IsList(add_comment_value)
    THEN [i \in DOMAIN add_comment_value.items |->
            PyStr(add_comment_value.items[i])]
  ELSE <<PyStr(add_comment_value)>>

\* int(v): a ValueError for text that is not a number, a TypeError for None,
\* a list or an object
Numeric(s) == s \in {"0", "1", "7", "10", "50", "100"}
IntErr(v) ==
  CASE v.t = "num" -> NoErr
    [] v.t = "str" /\ Numeric(v.s) -> NoErr
    [] v.t = "str" -> ValueError("invalid literal for int()")
    [] OTHER -> [raised |-> TRUE, exc |-> "TypeError", status_code |-> 0,
                 text |-> "int() argument must be a string or a number"]

\* Mutant: a comment that fails does not stop the loop
RECURSIVE AddCommentsKeepGoing(_, _, _)
AddCommentsKeepGoing(ctx, key, comments) ==
  IF comments = <<>> THEN ctx
  ELSE LET c1 == add_comment(ctx, key, Head(comments))
           c2 == AddCommentsKeepGoing([c1 EXCEPT !.err = NoErr], key, Tail(comments))
       IN IF c1.err.raised /\ ~ctx.err.raised THEN [c2 EXCEPT !.err = c1.err]
          ELSE IF ctx.err.raised THEN ctx ELSE c2

\* Mutant: the comments are added last first
RECURSIVE AddCommentsReversed(_, _, _)
AddCommentsReversed(ctx, key, comments) ==
  IF comments = <<>> THEN ctx
  ELSE add_comment(AddCommentsReversed(ctx, key, Tail(comments)), key, Head(comments))

\* for c in comments: self._connector.add_comment(key, c)
RECURSIVE AddComments(_, _, _)
AddComments(ctx, key, comments) ==
  IF comments = <<>> THEN ctx
  ELSE AddComments(add_comment(ctx, key, Head(comments)), key, Tail(comments))

\* actions.append(name), reached only when the statement before it returned
Applied(ctx, name) ==
  IF ctx.err.raised THEN ctx ELSE [ctx EXCEPT !.actions = Append(@, name)]

(***************************************************************************)
(* Handlers                                                                *)
(***************************************************************************)
CreateComments(ctx, data, key) ==
  AddComments(ctx, key, _normalize_comments(Get(data, "addComment")))

CreateStatus(ctx, data, key) ==
  IF IsStr(Get(data, "changeStatus"))
    THEN transition_issue(ctx, key, Get(data, "changeStatus").s)
  ELSE ctx

CreateExtraFields(data) == Or(Get(data, "fields"), ObjV("{}"))

\* Mutant: the comments are added before the transition
CreateStepsCommentsFirst(ctx, data, key) ==
  get_issue(CreateStatus(CreateComments(ctx, data, key), data, key), key)

\* Mutant: the issue is not fetched again after the writes
CreateStepsUnfetched(ctx, data, key) ==
  CreateComments(CreateStatus(ctx, data, key), data, key)

CreateSteps(ctx, data, key) ==
  get_issue(CreateComments(CreateStatus(ctx, data, key), data, key), key)

\* return {"ok": True, "type": "Create", "issue": ...}
CreateReturn(ctx) ==
  Return(ctx, [ok |-> TRUE, type |-> "Create", issue |-> _serialize_issue(ctx.ret)])

\* a variant that works on the issue the document names, when it names one
CreateAfterNamed(ctx, data) ==
  CreateReturn(CreateSteps(ctx, data,
                           IF IsStr(Get(data, "issueKey")) THEN Get(data, "issueKey").s
                           ELSE ctx.ret.key))

\* The statements of _handle_create after create_issue() has returned issue
CreateAfter(ctx, data) == CreateReturn(CreateSteps(ctx, data, ctx.ret.key))

CreateIssueType(data) ==
  Or(Or(Get(data, "issueType"), Get(data, "issue_type")), StrV("Task"))

_handle_create(ctx, data) ==
  IF ~IsStr(Get(data, "project")) \/ ~IsStr(Get(data, "summary"))
    THEN Raise(ctx, ValueError("Create requires project (str) and summary (str)."))
  ELSE IF ~IsDict(CreateExtraFields(data))
    THEN Raise(ctx, ValueError("fields must be an object when present."))
  ELSE CreateAfter(
         create_issue(ctx, Get(data, "project").s, Get(data, "summary").s,
                      PyStr(Or(Get(data, "description"), StrV(""))),
                      PyStr(CreateIssueType(data)), CreateExtraFields(data).s),
         data)

\* Mutant: the synonym issue is not looked at
EditIssueKeyNoIssue(data) == Or(Get(data, "issueKey"), Get(data, "key"))

\* Mutant: a missing reference defaults to the empty text
EditIssueKeyDefault(data) ==
  Or(Or(Or(Get(data, "issueKey"), Get(data, "key")), Get(data, "issue")), StrV(""))

EditIssueKey(data) ==
  Or(Or(Get(data, "issueKey"), Get(data, "key")), Get(data, "issue"))

EditSummary(ctx, data, issue_key) ==
  IF Has(data, "summary") /\ IsStr(Get(data, "summary"))
    THEN Applied(update_summary(ctx, issue_key, Item(data, "summary").s), "summary")
  ELSE ctx

EditDescription(ctx, data, issue_key) ==
  IF Has(data, "description") /\ IsStr(Get(data, "description"))
    THEN Applied(update_description(ctx, issue_key, Item(data, "description").s),
                 "description")
  ELSE ctx

EditFields(ctx, data, issue_key) ==
  IF ~Has(data, "fields") THEN ctx
  ELSE IF ~IsDict(Item(data, "fields"))
    THEN Raise(ctx, ValueError("fields must be an object when present."))
  ELSE Applied(update_issue_fields(ctx, issue_key, Item(data, "fields").s), "fields")

EditStatus(ctx, data, issue_key) ==
  IF Has(data, "changeStatus") /\ IsStr(Get(data, "changeStatus"))
    THEN Applied(transition_issue(ctx, issue_key, Item(data, "changeStatus").s),
                 "status")
  ELSE ctx

\* if comments: actions.append("comments")
AppliedIf(ctx, cond, name) == IF cond THEN Applied(ctx, name) ELSE ctx

\* Mutant: comments is listed whenever the key is present
EditCommentsAlwaysListed(ctx, data, issue_key) ==
  IF Has(data, "addComment")
    THEN Applied(AddComments(ctx, issue_key,
                             _normalize_comments(Item(data, "addComment"))),
                 "comments")
  ELSE ctx

EditComments(ctx, data, issue_key) ==
  IF Has(data, "addComment")
    THEN AppliedIf(AddComments(ctx, issue_key,
                               _normalize_comments(Item(data, "addComment"))),
                   _normalize_comments(Item(data, "addComment")) # <<>>,
                   "comments")
  ELSE ctx

\* Mutant: the transition is made before the fields update
EditStepsStatusEarly(ctx, data, issue_key) ==
  EditComments(
    EditFields(
      EditStatus(
        EditDescription(
          EditSummary(ctx, data, issue_key),
          data, issue_key),
        data, issue_key),
      data, issue_key),
    data, issue_key)

EditSteps(ctx, data, issue_key) ==
  EditComments(
    EditStatus(
      EditFields(
        EditDescription(
          EditSummary(ctx, data, issue_key),
          data, issue_key),
        data, issue_key),
      data, issue_key),
    data, issue_key)

\* return {"ok": True, "type": "Edit", "issue": ..., "actions": actions}
EditReturn(ctx) ==
  Return(ctx, [ok |-> TRUE, type |-> "Edit", issue |-> _serialize_issue(ctx.ret),
               actions |-> ctx.actions])

_handle_edit(ctx, data) ==
  IF ~IsStr(EditIssueKey(data))
    THEN Raise(ctx, ValueError("Edit requires issueKey (or key/issue) as a string."))
  ELSE EditReturn(get_issue(EditSteps(ctx, data, EditIssueKey(data).s),
                            EditIssueKey(data).s))

GetIssueIssueKey(data) ==
  Or(Or(Get(data, "issueKey"), Get(data, "key")), Get(data, "issue"))

\* Mutant: GetIssue leaves the status out of the projection
GetIssueReturnNoStatus(ctx) ==
  Return(ctx, [ok |-> TRUE, type |-> "GetIssue",
               issue |-> [_serialize_issue(ctx.ret) EXCEPT !.status = ""]])

GetIssueReturn(ctx) ==
  Return(ctx, [ok |-> TRUE, type |-> "GetIssue", issue |-> _serialize_issue(ctx.ret)])

_handle_get_issue(ctx, data) ==
  IF ~IsStr(GetIssueIssueKey(data))
    THEN Raise(ctx, ValueError("GetIssue requires issueKey (or key/issue)."))
  ELSE GetIssueReturn(get_issue(ctx, GetIssueIssueKey(data).s))

\* max_results = int(data.get("maxResults", 50))
MaxResults(data) == GetDefault(data, "maxResults", NumV("50"))

\* [self._serialize_issue(i) for i in issues]
SerializeAll(issues) == [i \in DOMAIN issues |-> _serialize_issue(issues[i])]

SearchReturn(ctx, jql) ==
  Return(ctx, [ok |-> TRUE, type |-> "Search", jql |-> jql,
               total |-> Len(ctx.rets), issues |-> SerializeAll(ctx.rets)])

_handle_search(ctx, data) ==
  IF ~IsStr(Get(data, "jql")) THEN Raise(ctx, ValueError("Search requires jql (str)."))
  ELSE IF IntErr(MaxResults(data)).raised THEN Raise(ctx, IntErr(MaxResults(data)))
  ELSE SearchReturn(
         search_issues(Call(ctx, "search_issues", <<PyStr(MaxResults(data))>>,
                            <<Get(data, "jql").s>>),
                       <<Get(data, "jql").s>>, PyStr(MaxResults(data))),
         Get(data, "jql").s)

ProjectIssuesReturn(ctx, project, status) ==
  Return(ctx, [ok |-> TRUE, type |-> "GetProjectIssues", project |-> project,
               status |-> status, total |-> Len(ctx.rets),
               issues |-> SerializeAll(ctx.rets)])

_handle_get_project_issues(ctx, data) ==
  IF ~IsStr(Get(data, "project"))
    THEN Raise(ctx, ValueError("GetProjectIssues requires project (str)."))
  ELSE IF IntErr(MaxResults(data)).raised THEN Raise(ctx, IntErr(MaxResults(data)))
  ELSE ProjectIssuesReturn(
         get_project_issues(ctx, Get(data, "project").s, Get(data, "status"),
                            PyStr(MaxResults(data))),
         Get(data, "project").s, Get(data, "status"))

MyOpenIssuesReturn(ctx) ==
  Return(ctx, [ok |-> TRUE, type |-> "GetMyOpenIssues", total |-> Len(ctx.rets),
               issues |-> SerializeAll(ctx.rets)])

_handle_get_my_open_issues(ctx, data) ==
  IF IntErr(MaxResults(data)).raised THEN Raise(ctx, IntErr(MaxResults(data)))
  ELSE MyOpenIssuesReturn(get_my_open_issues(ctx, PyStr(MaxResults(data))))

GetCommentsIssueKey(data) ==
  Or(Or(Get(data, "issueKey"), Get(data, "key")), Get(data, "issue"))

GetCommentsReturn(ctx, issue_key) ==
  Return(ctx, [ok |-> TRUE, type |-> "GetComments", issueKey |-> issue_key,
               total |-> Len(ctx.rets), comments |-> ctx.rets])

_handle_get_comments(ctx, data) ==
  IF ~IsStr(GetCommentsIssueKey(data))
    THEN Raise(ctx, ValueError("GetComments requires issueKey (or key/issue)."))
  ELSE GetCommentsReturn(get_comments(ctx, GetCommentsIssueKey(data).s),
                         GetCommentsIssueKey(data).s)

GetTransitionsIssueKey(data) ==
  Or(Or(Get(data, "issueKey"), Get(data, "key")), Get(data, "issue"))

GetTransitionsReturn(ctx, issue_key) ==
  Return(ctx, [ok |-> TRUE, type |-> "GetTransitions", issueKey |-> issue_key,
               transitions |-> ctx.rets])

_handle_get_transitions(ctx, data) ==
  IF ~IsStr(GetTransitionsIssueKey(data))
    THEN Raise(ctx, ValueError("GetTransitions requires issueKey (or key/issue)."))
  ELSE GetTransitionsReturn(
         available_transitions(ctx, GetTransitionsIssueKey(data).s),
         GetTransitionsIssueKey(data).s)

(***************************************************************************)
(* execute()                                                               *)
(***************************************************************************)
\* Mutant: the type is compared as it is written
LowerAsWritten(s) == s

\* str.lower() on the texts that occur as "type"
Lower(s) ==
  CASE s \in {"Create", "CREATE", "create"} -> "create"
    [] s \in {"Edit", "EDIT", "edit"} -> "edit"
    [] s \in {"GetIssue", "getIssue", "getissue"} -> "getissue"
    [] s \in {"Search", "search"} -> "search"
    [] s \in {"GetProjectIssues", "getprojectissues"} -> "getprojectissues"
    [] s \in {"GetMyOpenIssues", "getmyopenissues"} -> "getmyopenissues"
    [] s \in {"GetComments", "getcomments"} -> "getcomments"
    [] s \in {"GetTransitions", "gettransitions"} -> "gettransitions"
    [] s \in {"Delete", "delete"} -> "delete"
    [] OTHER -> s

(* A text payload is a sequence of tokens: the punctuation of JSON, the two *)
(* quote characters, blanks, and words (a word is also what stands between *)
(* two quotes).                                                            *)
At(text, i) == IF i \in DOMAIN text THEN text[i] ELSE ""
\* str.strip()
Strip(text) ==
  IF \A i \in DOMAIN text : text[i] \in {" ", "\n"} THEN <<>>
  ELSE SubSeq(text,
              CHOOSE i \in DOMAIN text :
                 text[i] \notin {" ", "\n"}
                   /\ \A j \in 1..(i - 1) : text[j] \in {" ", "\n"},
              CHOOSE i \in DOMAIN text :
                 text[i] \notin {" ", "\n"}
                   /\ \A j \in (i + 1)..Len(text) : text[j] \in {" ", "\n"})
\* text.replace("'", '"')
ReplaceQuotes(text) == [i \in DOMAIN text |-> IF text[i] = "'" THEN "\"" ELSE text[i]]

JSONDecodeError ==
  [raised |-> TRUE, exc |-> "JSONDecodeError", status_code |-> 0,
   text |-> "Expecting value"]
AttributeError ==
  [raised |-> TRUE, exc |-> "AttributeError", status_code |-> 0,
   text |-> "object has no attribute get"]

\* json.loads(): the value that starts at token i and the token after it
ParseValue(text, i) ==
  CASE At(text, i) = "\"" /\ At(text, i + 1) = "\"" ->
         [ok |-> TRUE, v |-> StrV(""), next |-> i + 2]
    [] At(text, i) = "\"" /\ At(text, i + 1) \notin {"\"", ""}
         /\ At(text, i + 2) = "\"" ->
         [ok |-> TRUE, v |-> StrV(At(text, i + 1)), next |-> i + 3]
    [] At(text, i) = "null" -> [ok |-> TRUE, v |-> Null, next |-> i + 1]
    [] Numeric(At(text, i)) -> [ok |-> TRUE, v |-> NumV(At(text, i)), next |-> i + 1]
    [] At(text, i) = "{" /\ At(text, i + 1) = "}" ->
         [ok |-> TRUE, v |-> ObjV("{}"), next |-> i + 2]
    [] At(text, i) = "[" /\ At(text, i + 1) = "]" ->
         [ok |-> TRUE, v |-> ListV(<<>>), next |-> i + 2]
    [] OTHER -> [ok |-> FALSE, v |-> Null, next |-> 0]

\* The members of an object from token i on, f the members read so far (a
\* key that is repeated keeps its last value)
RECURSIVE ParseMembers(_, _, _)
ParseMembers(text, i, f) ==
  LET val == ParseValue(text, i + 4)
      g == (At(text, i + 1) :> val.v) @@ f
  IN IF At(text, i) = "\"" /\ At(text, i + 1) \notin {"\"", ""}
          /\ At(text, i + 2) = "\"" /\ At(text, i + 3) = ":" /\ val.ok
       THEN IF At(text, val.next) = "," THEN ParseMembers(text, val.next + 1, g)
            ELSE [ok |-> At(text, val.next) = "}" /\ val.next = Len(text),
                  dict |-> TRUE, f |-> g]
     ELSE [ok |-> FALSE, dict |-> FALSE, f |-> <<>>]

\* json.loads(): blanks between tokens are skipped; ok tells whether the text
\* is JSON, dict whether it is an object, f gives the members of the object
json_loads(text) ==
  LET toks == SelectSeq(text, LAMBDA tok : tok \notin {" ", "\n"})
      val == ParseValue(toks, 1)
  IN IF At(toks, 1) = "{" /\ At(toks, 2) # "}" THEN ParseMembers(toks, 2, <<>>)
     ELSE [ok |-> val.ok /\ val.next = Len(toks) + 1, dict |-> val.v.t = "obj",
           f |-> <<>>]

\* a variant without the second attempt
_parse_payloadStrict(payload) ==
  LET strict == json_loads(Strip(payload.text))
  IN IF payload.kind = "dict"
       THEN [err |-> NoErr, dict |-> TRUE, data |-> payload.data]
     ELSE IF strict.ok
       THEN [err |-> NoErr, dict |-> strict.dict, data |-> Doc(strict.f)]
     ELSE [err |-> JSONDecodeError, dict |-> FALSE, data |-> Doc(<<>>)]

\* What _parse_payload() returns (data) or raises (err); dict tells whether
\* the value returned is a dict
_parse_payload(payload) ==
  LET text == Strip(payload.text)
      strict == json_loads(text)
      fixed == json_loads(ReplaceQuotes(text))
  IN IF payload.kind = "dict"
       THEN [err |-> NoErr, dict |-> TRUE, data |-> payload.data]
     ELSE IF payload.kind = "other"
       THEN [err |-> AttributeError, dict |-> FALSE, data |-> Doc(<<>>)]
     ELSE IF strict.ok
       THEN [err |-> NoErr, dict |-> strict.dict, data |-> Doc(strict.f)]
     ELSE IF fixed.ok
       THEN [err |-> NoErr, dict |-> fixed.dict, data |-> Doc(fixed.f)]
     ELSE [err |-> JSONDecodeError, dict |-> FALSE, data |-> Doc(<<>>)]

\* str(e) of a JIRAError
StrError(e) == <<"JiraError HTTP ", e.status_code, " text: ", e.text>>

\* Mutant: the status code is not copied from the exception
ErrorEnvelopeNoCode(e) ==
  [ok |-> FALSE, error |-> "JIRAError", status_code |-> 0,
   message |-> StrError(e)]

\* except JIRAError as e: return {...}
ErrorEnvelope(e) ==
  [ok |-> FALSE, error |-> "JIRAError", status_code |-> e.status_code,
   message |-> StrError(e)]

Dispatch(ctx, cmd_type, data) ==
  CASE cmd_type = "create" -> _handle_create(ctx, data)
    [] cmd_type = "edit" -> _handle_edit(ctx, data)
    [] cmd_type = "getissue" -> _handle_get_issue(ctx, data)
    [] cmd_type = "search" -> _handle_search(ctx, data)
    [] cmd_type = "getprojectissues" -> _handle_get_project_issues(ctx, data)
    [] cmd_type = "getmyopenissues" -> _handle_get_my_open_issues(ctx, data)
    [] cmd_type = "getcomments" -> _handle_get_comments(ctx, data)
    [] cmd_type = "gettransitions" -> _handle_get_transitions(ctx, data)
    [] OTHER -> Raise(ctx, ValueError("Unsupported command type"))

\* Mutant: the rejection of a transition is not caught
OutcomeTransitionEscapes(c) ==
  IF c.err.raised /\ c.err.exc = "JIRAError"
       /\ c.jtrace[Len(c.jtrace)].op # "transition_issue"
    THEN [status |-> "returned", exc |-> "", msg |-> "",
          value |-> ErrorEnvelope(c.err)]
  ELSE IF c.err.raised
    THEN [status |-> "raised", exc |-> c.err.exc, msg |-> c.err.text,
          value |-> NoValue]
  ELSE [status |-> "returned", exc |-> "", msg |-> "", value |-> c.value]

\* Mutant: every error of a handler is turned into an envelope
OutcomeCatchesAll(c) ==
  IF c.err.raised
    THEN [status |-> "returned", exc |-> "", msg |-> "",
          value |-> ErrorEnvelope(c.err)]
  ELSE [status |-> "returned", exc |-> "", msg |-> "", value |-> c.value]

\* What the try statement of execute() makes of the handler's outcome
Outcome(c) ==
  IF c.err.raised /\ c.err.exc = "JIRAError"
    THEN [status |-> "returned", exc |-> "", msg |-> "",
          value |-> ErrorEnvelope(c.err)]
  ELSE IF c.err.raised
    THEN [status |-> "raised", exc |-> c.err.exc, msg |-> c.err.text,
          value |-> NoValue]
  ELSE [status |-> "returned", exc |-> "", msg |-> "", value |-> c.value]

\* How execute() ends, with the context it ends in
Result(c) == [c |-> c, out |-> Outcome(c)]

\* Mutant: a type that is no string is taken for a GetIssue of K1
NoTypeGetIssue(ctx) == GetIssueReturn(get_issue(ctx, "K1"))

\* if not isinstance(cmd_type_raw, str): raise ValueError(...)
NoType(ctx) == Raise(ctx, ValueError("Command must include string field type."))

\* execute() up to the dispatch: the errors that are raised before the try
\* statement (data.get on a value that is no dict is an AttributeError)
Undispatched(ctx, parsed) ==
  IF parsed.err.raised THEN Raise(ctx, parsed.err)
  ELSE IF ~parsed.dict THEN Raise(ctx, AttributeError)
  ELSE NoType(ctx)
Dispatchable(parsed) ==
  ~parsed.err.raised /\ parsed.dict /\ IsStr(Get(parsed.data, "type"))

\* Mutant: a command that fails leaves the remote state as it found it
Undone(c, remote0) ==
  [c |-> IF c.err.raised THEN [c EXCEPT !.remote = remote0] ELSE c,
   out |-> Outcome(c)]
CommandTransactional(parsed, remote0, plan0) ==
  IF ~Dispatchable(parsed) THEN Result(Undispatched(NewCtx(remote0, plan0), parsed))
  ELSE Undone(Dispatch(NewCtx(remote0, plan0),
                       Lower(Get(parsed.data, "type").s), parsed.data),
              remote0)
executeTransactional(payload, remote0, plan0) ==
  CommandTransactional(_parse_payload(payload), remote0, plan0)

\* execute() once the payload is parsed
Command(parsed, remote0, plan0) ==
  IF ~Dispatchable(parsed) THEN Result(Undispatched(NewCtx(remote0, plan0), parsed))
  ELSE Result(Dispatch(NewCtx(remote0, plan0),
                       Lower(Get(parsed.data, "type").s), parsed.data))

\* The result of execute(payload) against a remote state, when the remote
\* service refuses the plan-th request
execute(payload, remote0, plan0) ==
  Command(_parse_payload(payload), remote0, plan0)

(***************************************************************************)
(* Command documents                                                       *)
(***************************************************************************)
ActionKeys == <<"summary", "description", "fields", "changeStatus", "addComment">>
Reverse(seq) == [i \in DOMAIN seq |-> seq[Len(seq) + 1 - i]]
\* The order in which the keys of the document were written
Orders == {ActionKeys, Reverse(ActionKeys)}

DictPayload(f, order) ==
  [kind |-> "dict", data |-> Doc(f), order |-> order, text |-> <<>>]
TextPayload(text) ==
  [kind |-> "text", data |-> Doc(<<>>), order |-> ActionKeys, text |-> text]

\* (issueKey, key, issue)
Refs ==
  {<<StrV("K1"), Absent, Absent>>, <<Absent, StrV("K1"), Absent>>,
   <<Absent, Absent, StrV("K1")>>, <<Absent, Absent, Absent>>,
   <<StrV("K2"), Absent, Absent>>, <<NumV("5"), Absent, Absent>>,
   <<StrV(""), StrV("K1"), Absent>>, <<Null, Absent, StrV("K1")>>,
   <<StrV("K1"), StrV("K2"), Absent>>, <<NumV("0"), StrV("K1"), Absent>>,
   <<NumV("5"), StrV("K1"), Absent>>}
RefFields(r) == ("issueKey" :> r[1]) @@ ("key" :> r[2]) @@ ("issue" :> r[3])

SummaryValues == {Absent, StrV("s1"), NumV("5")}
DescriptionValues == {Absent, StrV("d1")}
FieldsValues == {Absent, ObjV("{'priority': 'High'}"), StrV("x")}
StatusValues == {Absent, StrV("In Progress"), NumV("5")}
CommentBodies == <<StrV("a"), StrV("b"), StrV("b"), StrV("a")>>
CommentValues ==
  {Absent, Null, StrV("c")}
    \cup {ListV(SubSeq(CommentBodies, 1, n)) : n \in 0..MaxComments}

\* The spellings of the command kinds that documents use
Spellings(kind) ==
  CASE kind = "create" -> {"Create", "CREATE", "create"}
    [] kind = "edit" -> {"Edit", "EDIT", "edit"}
    [] kind = "getissue" -> {"GetIssue", "getIssue", "getissue"}
    [] kind = "search" -> {"Search", "search"}
    [] kind = "getprojectissues" -> {"GetProjectIssues", "getprojectissues"}
    [] kind = "getmyopenissues" -> {"GetMyOpenIssues", "getmyopenissues"}
    [] kind = "getcomments" -> {"GetComments", "getcomments"}
    [] kind = "gettransitions" -> {"GetTransitions", "gettransitions"}
    [] OTHER -> {}

\* Edit and Create documents whose type is not in the canonical spelling
RespelledPayloads(kind) ==
  {DictPayload(("type" :> StrV(ty)) @@ ("project" :> StrV("KAN"))
               @@ ("issueKey" :> StrV("K1")) @@ ("summary" :> StrV("s1"))
               @@ ("changeStatus" :> cs) @@ ("addComment" :> StrV("c")),
               ActionKeys) :
     ty \in Spellings(kind), cs \in {StrV("In Progress"), StrV("Done")}}

EditPayloads ==
  {DictPayload(("type" :> StrV("Edit")) @@ RefFields(r) @@ ("summary" :> su)
               @@ ("description" :> de) @@ ("fields" :> fi)
               @@ ("changeStatus" :> cs) @@ ("addComment" :> ac), o) :
     r \in Refs, su \in SummaryValues, de \in DescriptionValues,
     fi \in FieldsValues, cs \in StatusValues, ac \in CommentValues,
     o \in Orders}

CreatePayloads ==
  {DictPayload(("type" :> StrV("Create")) @@ ("project" :> pr) @@ ("summary" :> su)
               @@ ("description" :> de) @@ ("fields" :> fi)
               @@ ("changeStatus" :> cs) @@ ("addComment" :> ac)
               @@ ("issueKey" :> ik), ActionKeys) :
     pr \in {Absent, StrV("KAN"), StrV("NOPE"), NumV("5")},
     su \in {Absent, StrV("s1"), NumV("5")},
     de \in DescriptionValues, fi \in FieldsValues \cup {Null},
     cs \in StatusValues \cup {StrV("Done")}, ac \in CommentValues,
     ik \in {Absent, StrV("K1")}}

RefPayloads(type) ==
  {DictPayload(("type" :> StrV(ty)) @@ RefFields(r), ActionKeys) :
     ty \in Spellings(Lower(type)), r \in Refs}

MaxResultsValues == {Absent, NumV("1"), StrV("7"), StrV("abc"), Null}

SearchPayloads ==
  {DictPayload(("type" :> StrV(ty)) @@ ("jql" :> q) @@ ("maxResults" :> m),
               ActionKeys) :
     ty \in Spellings("search"),
     q \in {Absent, StrV("status = Done"), StrV("summary ~ s1"), StrV("bogus("),
            NumV("5")},
     m \in MaxResultsValues}

ProjectIssuesPayloads ==
  {DictPayload(("type" :> StrV(ty)) @@ ("project" :> pr)
               @@ ("status" :> st) @@ ("maxResults" :> m), ActionKeys) :
     ty \in Spellings("getprojectissues"),
     pr \in {Absent, StrV("KAN"), StrV("NOPE"), NumV("5")},
     st \in {Absent, StrV("To Do"), StrV("In Progress"), StrV("")},
     m \in MaxResultsValues}

MyOpenIssuesPayloads ==
  {DictPayload(("type" :> StrV(ty)) @@ ("maxResults" :> m), ActionKeys) :
     ty \in Spellings("getmyopenissues"), m \in MaxResultsValues}

\* Documents that no handler takes
OtherPayloads ==
  {DictPayload(("type" :> ty) @@ ("issueKey" :> StrV("K1"))
               @@ ("summary" :> StrV("s1")), ActionKeys) :
     ty \in {Absent, Null, NumV("5"), StrV("Delete"), StrV(""), StrV("create ")}}

\* A GetIssue and an Edit written with the quote character q
GetIssueText(q) ==
  <<"{", q, "type", q, ":", q, "GetIssue", q, ",",
    q, "issueKey", q, ":", q, "K1", q, "}">>
EditText(q) ==
  <<"{", q, "type", q, ":", q, "Edit", q, ",", q, "key", q, ":", q, "K1", q, ",",
    q, "summary", q, ":", q, "s1", q, ",",
    q, "changeStatus", q, ":", q, "In Progress", q, ",",
    q, "addComment", q, ":", q, "c", q, "}">>
\* Texts in JSON, texts in single quotes, texts with blanks around them, a
\* summary that is an apostrophe, texts that are no JSON however they are
\* quoted, and JSON texts that are no object
Texts ==
  {GetIssueText("\""), GetIssueText("'"), EditText("\""), EditText("'"),
   <<" ">> \o GetIssueText("'") \o <<" ", " ">>,
   <<"{", "\"", "type", "\"", ":", "\"", "Edit", "\"", ",",
     "\"", "issueKey", "\"", ":", "\"", "K1", "\"", ",",
     "\"", "summary", "\"", ":", "\"", "'", "\"", "}">>,
   <<"{", "'", "type", "\"", ":", "\"", "GetIssue", "'", ",",
     "\"", "issueKey", "\"", ":", "\"", "K1", "\"", "}">>,
   <<"{", "\"", "issueKey", "\"", ":", "\"", "K1", "\"", "}">>,
   <<"{", "}">>, <<"{", "\"", "type", "\"", ":", "\"", "GetIssue", "\"", ",">>,
   <<"{", "type", ":", "GetIssue", "}">>, <<"get", " ", "K1">>, <<>>, <<" ">>,
   <<"5">>, <<"null">>, <<"'", "GetIssue", "'">>, <<"[", "]">>}
TextPayloads == {TextPayload(text) : text \in Texts}

(***************************************************************************)
(* The state machine: one execute() on a translator whose connector talks  *)
(* to a remote service in some state.                                      *)
(***************************************************************************)
VARIABLES
  phase,      \* "idle" before execute(), "done" after it
  payload,    \* the argument of execute()
  plan,       \* the request the remote service refuses (0: none)
  remote0,    \* the remote state when execute() was called
  remote,     \* the remote state
  trace,      \* the connector calls execute() made, in order
  jtrace,     \* the requests the connector made on the jira client, in order
  out,        \* how execute() ended: a returned envelope or a raised error
  history     \* the execute() calls made before this one, the oldest first
vars == <<phase, payload, plan, remote0, remote, trace, jtrace, out, history>>

NoPayload == DictPayload(<<>>, ActionKeys)
NoOut == [status |-> "none", exc |-> "", msg |-> "", value |-> NoValue]

Init ==
  /\ phase = "idle"
  /\ payload = NoPayload
  /\ plan = 0
  /\ remote \in InitRemotes
  /\ remote0 = remote
  /\ trace = <<>>
  /\ jtrace = <<>>
  /\ out = NoOut
  /\ history = <<>>

\* The plan is one the remote service carried out
Carried(r, p) ==
  p = 0 \/ (Len(r.c.jtrace) = p /\ r.c.err.raised /\ r.c.err.text = "Forbidden")

\* a variant of a translator that keeps the last document and fills the keys
\* the next document leaves out from it
Remembered(pl) ==
  IF phase = "done"
    THEN [pl EXCEPT !.data = [k \in DOMAIN pl.data |->
                                IF Has(pl.data, k) THEN pl.data[k] ELSE payload.data[k]]]
  ELSE pl
RunRemembering(pl, p) ==
  /\ LET r == execute(Remembered(pl), remote, p)
     IN /\ Carried(r, p)
        /\ phase' = "done"
        /\ payload' = pl
        /\ plan' = p
        /\ remote0' = remote
        /\ remote' = r.c.remote
        /\ trace' = r.c.trace
        /\ jtrace' = r.c.jtrace
        /\ out' = r.out

Run(pl, p) ==
  /\ LET r == execute(pl, remote, p)
     IN /\ Carried(r, p)
        /\ phase' = "done"
        /\ payload' = pl
        /\ plan' = p
        /\ remote0' = remote
        /\ remote' = r.c.remote
        /\ trace' = r.c.trace
        /\ jtrace' = r.c.jtrace
        /\ out' = r.out

\* The one execute() call of a translator
Execute(pl, p) == Run(pl, p) /\ history' = history

Plans == 0..MaxPlan

ExecuteCreate ==
  phase = "idle"
    /\ \E pl \in CreatePayloads \cup RespelledPayloads("create"), p \in Plans :
          Execute(pl, p)
ExecuteEdit ==
  phase = "idle"
    /\ \E pl \in EditPayloads \cup RespelledPayloads("edit"), p \in Plans :
          Execute(pl, p)
ExecuteGetIssue == phase = "idle" /\ \E pl \in RefPayloads("GetIssue"), p \in Plans : Execute(pl, p)
ExecuteSearch == phase = "idle" /\ \E pl \in SearchPayloads, p \in Plans : Execute(pl, p)
ExecuteGetProjectIssues ==
  phase = "idle" /\ \E pl \in ProjectIssuesPayloads, p \in Plans : Execute(pl, p)
ExecuteGetMyOpenIssues ==
  phase = "idle" /\ \E pl \in MyOpenIssuesPayloads, p \in Plans : Execute(pl, p)
ExecuteGetComments ==
  phase = "idle" /\ \E pl \in RefPayloads("GetComments"), p \in Plans : Execute(pl, p)
ExecuteGetTransitions ==
  phase = "idle" /\ \E pl \in RefPayloads("GetTransitions"), p \in Plans : Execute(pl, p)
ExecuteOther == phase = "idle" /\ \E pl \in OtherPayloads, p \in Plans : Execute(pl, p)
ExecuteText == phase = "idle" /\ \E pl \in TextPayloads, p \in Plans : Execute(pl, p)

Next ==
  \/ ExecuteCreate
  \/ ExecuteEdit
  \/ ExecuteGetIssue
  \/ ExecuteSearch
  \/ ExecuteGetProjectIssues
  \/ ExecuteGetMyOpenIssues
  \/ ExecuteGetComments
  \/ ExecuteGetTransitions
  \/ ExecuteOther
  \/ ExecuteText

Spec == Init /\ [][Next]_vars

(***************************************************************************)
(* Several execute() calls on one translator, one after the other, against *)
(* the remote state the calls before have left.                            *)
(***************************************************************************)
SessionPayloads(class) ==
  CASE class = "write" ->
         {DictPayload(("type" :> StrV("Create")) @@ ("project" :> StrV("KAN"))
                      @@ ("summary" :> StrV("s1")) @@ ("changeStatus" :> w[1])
                      @@ ("addComment" :> w[2]), ActionKeys) :
            w \in {<<Absent, Absent>>, <<StrV("In Progress"), StrV("c")>>}}
         \cup
         {DictPayload(("type" :> StrV("Edit")) @@ ("issueKey" :> StrV(k))
                      @@ ("summary" :> w[1]) @@ ("changeStatus" :> w[2]), ActionKeys) :
            k \in {"K1", "N1"},
            w \in {<<StrV("s2"), Absent>>, <<Absent, StrV("In Progress")>>,
                   <<Absent, StrV("Done")>>}}
    [] class = "query" ->
         {DictPayload(("type" :> StrV(w[1])) @@ ("issueKey" :> StrV(w[2])), ActionKeys) :
            w \in {<<"GetIssue", "K1">>, <<"GetIssue", "K2">>, <<"GetIssue", "N1">>,
                   <<"GetTransitions", "K1">>, <<"GetTransitions", "N1">>,
                   <<"GetComments", "N1">>}}
         \cup
         {DictPayload(("type" :> StrV(w[1])) @@ ("jql" :> w[2])
                      @@ ("maxResults" :> w[3]), ActionKeys) :
            w \in {<<"Search", StrV("reporter = currentUser()"), Absent>>,
                   <<"Search", StrV("reporter = currentUser()"), NumV("1")>>,
                   <<"GetMyOpenIssues", Absent, Absent>>}}
         \cup
         {DictPayload(("type" :> StrV("GetProjectIssues")) @@ ("project" :> StrV("KAN"))
                      @@ ("status" :> w[1]) @@ ("maxResults" :> w[2]), ActionKeys) :
            w \in {<<Absent, Absent>>, <<StrV("In Progress"), Absent>>,
                   <<StrV("In Progress"), NumV("1")>>}}
    [] OTHER ->
         {DictPayload(("type" :> StrV(ty)) @@ ("summary" :> StrV("s2")), ActionKeys) :
            ty \in {"Edit", "Delete"}}

\* One more execute(); an issue is created while the remote service has a
\* key left for it
SessionStep(class) ==
  /\ Len(history) + (IF phase = "done" THEN 1 ELSE 0) < MaxCommands
  /\ \E pl \in SessionPayloads(class), p \in 0..MaxSessionPlan :
        /\ pl.data["type"] = StrV("Create") => FreeKeys(remote) # {}
        /\ Run(pl, p)
        /\ history' =
             IF phase = "idle" THEN history
             ELSE Append(history,
                         [payload |-> payload, plan |-> plan, remote0 |-> remote0,
                          trace |-> trace, jtrace |-> jtrace, out |-> out])

SessionWrite == SessionStep("write")
SessionQuery == SessionStep("query")
SessionInvalid == SessionStep("invalid")

SessionNext == SessionWrite \/ SessionQuery \/ SessionInvalid

SessionSpec == Init /\ [][SessionNext]_vars

(***************************************************************************)
(* _normalize_comments() on its own: the value is drawn when the state     *)
(* machine starts, the one step applies the function to it.                *)
(***************************************************************************)
CommentItems == {StrV("a"), StrV(""), NumV("7"), Null}
\* The values addComment can have: null, strings, other scalars, and the
\* lists of up to MaxItems elements
CommentInputs ==
  {Null, StrV("x"), StrV(""), NumV("5"), ObjV("{}")}
    \cup {ListV(xs) : xs \in UNION {[1..n -> CommentItems] : n \in 0..MaxItems}}

NormalizeInit ==
  /\ phase = "idle"
  /\ payload \in {DictPayload("addComment" :> v, ActionKeys) : v \in CommentInputs}
  /\ plan = 0
  /\ remote = [k \in IssueKeys |-> NoIssue]
  /\ remote0 = remote
  /\ trace = <<>>
  /\ jtrace = <<>>
  /\ out = NoOut
  /\ history = <<>>

Normalize ==
  /\ phase = "idle"
  /\ phase' = "done"
  /\ out' = [status |-> "returned", exc |-> "", msg |-> "",
             value |-> [ok |-> TRUE, type |-> "comments",
                        comments |-> _normalize_comments(Get(payload.data, "addComment"))]]
  /\ UNCHANGED <<payload, plan, remote0, remote, trace, jtrace, history>>

NormalizeNext == Normalize

NormalizeSpec == NormalizeInit /\ [][NormalizeNext]_vars

(***************************************************************************)
(* The update operations of the connector, called one after another on a  *)
(* remote service in some state.  out holds the issue the call returned   *)
(* or the JIRAError it raised.                                            *)
(***************************************************************************)
ConnectorCall(c, p) ==
  /\ Len(history) + (IF phase = "done" THEN 1 ELSE 0) < MaxCommands
  /\ Carried([c |-> c], p)
  /\ phase' = "done"
  /\ payload' = payload
  /\ plan' = p
  /\ remote0' = remote
  /\ remote' = c.remote
  /\ trace' = c.trace
  /\ jtrace' = c.jtrace
  /\ out' = IF c.err.raised
              THEN [status |-> "raised", exc |-> c.err.exc, msg |-> c.err.text,
                    value |-> NoObject]
            ELSE [status |-> "returned", exc |-> "", msg |-> "", value |-> c.ret]
  /\ history' =
       IF phase = "idle" THEN history
       ELSE Append(history,
                   [payload |-> payload, plan |-> plan, remote0 |-> remote0,
                    trace |-> trace, jtrace |-> jtrace, out |-> out])

UpdateSummary ==
  \E k \in {"K1", "K2"}, v \in {"s0", "s1"}, p \in 0..MaxUpdatePlan :
     ConnectorCall(update_summary(NewCtx(remote, p), k, v), p)
UpdateDescription ==
  \E k \in {"K1", "K2"}, v \in {"d0", "d1"}, p \in 0..MaxUpdatePlan :
     ConnectorCall(update_description(NewCtx(remote, p), k, v), p)
UpdateIssueFields ==
  \E k \in {"K1", "K2"}, v \in {"{}", "{'priority': 'High'}"}, p \in 0..MaxUpdatePlan :
     ConnectorCall(update_issue_fields(NewCtx(remote, p), k, v), p)

ConnectorNext == UpdateSummary \/ UpdateDescription \/ UpdateIssueFields
ConnectorSpec == Init /\ [][ConnectorNext]_vars

(***************************************************************************)
(* run_chat_flow() (src/intake.py): one flow on a remote service in some    *)
(* state.  phase is the position in the flow; history lists the stages run *)
(* so far, in order, each with whether it succeeded; payload holds the      *)
(* reply of the language model and, once it is parsed, the command; trace   *)
(* and jtrace collect the calls of the whole flow; out tells what the flow  *)
(* printed last when it ended, and the error it let through, if any.        *)
(***************************************************************************)
\* get_current_tasks_text(connector, project_key="KAN"): one search; the
\* issues that are not Done go into the text
get_current_tasks_text(ctx) ==
  search_issues(Call(ctx, "search_issues", <<"100">>,
                     <<"project = ", "KAN", " ORDER BY updated DESC">>),
                <<"project = ", "KAN", " ORDER BY updated DESC">>, "100")

\* What the language model may answer: a command in JSON, bare or inside a
\* Markdown fence, on one line or on several; a fence without an end; a fence
\* on one line; a command in single quotes; prose; nothing; JSON values that
\* are no object.  The token [fence] is the three backquotes of Markdown.
Replies ==
  {GetIssueText("\""), EditText("\""),
   <<"[fence]json", "\n">> \o EditText("\"") \o <<"\n", "[fence]">>,
   <<"[fence]", "\n", "{", "\n">>
     \o SubSeq(GetIssueText("\""), 2, Len(GetIssueText("\""))) \o <<"\n", "[fence]", " ">>,
   <<"[fence]json", "\n">> \o GetIssueText("\""),
   <<"[fence]json", " ">> \o GetIssueText("\"") \o <<" ", "[fence]">>,
   EditText("'"), <<"get", " ", "K1">>, <<>>, <<"5">>, <<"\"", "GetIssue", "\"">>,
   <<"{", "\"", "issueKey", "\"", ":", "\"", "K1", "\"", "}">>,
   <<"{", "\"", "type", "\"", ":", "\"", "Create", "\"", ",",
     "\"", "project", "\"", ":", "\"", "KAN", "\"", ",",
     "\"", "summary", "\"", ":", "\"", "s1", "\"", "}">>,
   <<"{", "\"", "type", "\"", ":", "\"", "Create", "\"", ",",
     "\"", "project", "\"", ":", "\"", "KAN", "\"", ",",
     "\"", "summary", "\"", ":", "\"", "s1", "\"", ",",
     "\"", "changeStatus", "\"", ":", "\"", "In Progress", "\"", ",",
     "\"", "addComment", "\"", ":", "\"", "c", "\"", "}">>,
   <<"{", "\"", "type", "\"", ":", "\"", "Edit", "\"", ",",
     "\"", "issueKey", "\"", ":", "\"", "K2", "\"", ",",
     "\"", "summary", "\"", ":", "\"", "s1", "\"", "}">>,
   <<"{", "\"", "type", "\"", ":", "\"", "Edit", "\"", ",",
     "\"", "issueKey", "\"", ":", "\"", "K1", "\"", ",",
     "\"", "changeStatus", "\"", ":", "\"", "Done", "\"", "}">>,
   <<"{", "\"", "type", "\"", ":", "\"", "GetTransitions", "\"", ",",
     "\"", "key", "\"", ":", "\"", "K1", "\"", "}">>}

\* lines = text.split("\n"); the first line is dropped, and the last one when
\* it is the end of the fence; "\n".join(lines)
StripFence(text) ==
  LET first == IF \E i \in DOMAIN text : text[i] = "\n"
                 THEN CHOOSE i \in DOMAIN text :
                        text[i] = "\n" /\ \A j \in 1..(i - 1) : text[j] # "\n"
               ELSE Len(text) + 1
      rest == SubSeq(text, first + 1, Len(text))
      last == IF \E i \in DOMAIN rest : rest[i] = "\n"
                THEN 1 + CHOOSE i \in DOMAIN rest :
                             rest[i] = "\n" /\ \A j \in (i + 1)..Len(rest) : rest[j] # "\n"
              ELSE 1
  IN IF rest # <<>> /\ Strip(SubSeq(rest, last, Len(rest))) = <<"[fence]">>
       THEN SubSeq(rest, 1, last - 2)
     ELSE rest

\* _parse_bot_json(raw): ok tells whether json.loads() returned; command is
\* the value it returned, as the payload execute() is given
_parse_bot_json(raw) ==
  LET text == IF At(Strip(raw), 1) \in {"[fence]", "[fence]json"} THEN StripFence(Strip(raw))
              ELSE Strip(raw)
      loaded == json_loads(text)
      v == ParseValue(SelectSeq(text, LAMBDA tok : tok \notin {" ", "\n"}), 1).v
  IN [ok |-> loaded.ok,
      command |-> IF loaded.dict THEN DictPayload(loaded.f, ActionKeys)
                  ELSE IF v.t = "str" THEN TextPayload(<<v.s>>)
                  ELSE [TextPayload(<<>>) EXCEPT !.kind = "other"]]

\* The flow ends: what it printed last
Ended(msg) == [status |-> "returned", exc |-> "", msg |-> msg, value |-> NoValue]
Stage(name, ok) == [stage |-> name, ok |-> ok]

\* if not user_message: print("No message entered."); return
ChatEmpty ==
  /\ phase = "idle"
  /\ phase' = "done"
  /\ out' = Ended("No message entered.")
  /\ UNCHANGED <<payload, plan, remote0, remote, trace, jtrace, history>>

\* try: current_tasks = get_current_tasks_text(...) except Exception: return
FetchTasks ==
  /\ phase = "idle"
  /\ \E p \in 0..1 :
        LET c == get_current_tasks_text(NewCtx(remote, p))
        IN /\ Carried([c |-> c], p)
           /\ plan' = p
           /\ remote0' = remote
           /\ remote' = c.remote
           /\ trace' = c.trace
           /\ jtrace' = c.jtrace
           /\ history' = Append(history, Stage("fetch", ~c.err.raised))
           /\ phase' = IF c.err.raised THEN "done" ELSE "fetched"
           /\ out' = IF c.err.raised THEN Ended("Failed to fetch tasks") ELSE out
           /\ payload' = payload

\* try: response_text = ask_gemini(...) except Exception: return
AskGemini ==
  /\ phase = "fetched"
  /\ \/ \E reply \in Replies :
          /\ payload' = TextPayload(reply)
          /\ history' = Append(history, Stage("ask", TRUE))
          /\ phase' = "asked"
          /\ out' = out
     \/ /\ payload' = payload
        /\ history' = Append(history, Stage("ask", FALSE))
        /\ phase' = "done"
        /\ out' = Ended("Chatbot error")
  /\ UNCHANGED <<plan, remote0, remote, trace, jtrace>>

\* a variant that hands a reply it could not parse to the translator as it is
ParseReplyAnyway ==
  /\ phase = "asked"
  /\ payload' = IF _parse_bot_json(payload.text).ok
                  THEN _parse_bot_json(payload.text).command
                ELSE payload
  /\ history' = Append(history, Stage("parse", _parse_bot_json(payload.text).ok))
  /\ phase' = "parsed"
  /\ out' = out
  /\ UNCHANGED <<plan, remote0, remote, trace, jtrace>>

\* try: command = _parse_bot_json(response_text)
\* except json.JSONDecodeError: return
ParseReply ==
  /\ phase = "asked"
  /\ IF _parse_bot_json(payload.text).ok
       THEN /\ payload' = _parse_bot_json(payload.text).command
            /\ history' = Append(history, Stage("parse", TRUE))
            /\ phase' = "parsed"
            /\ out' = out
     ELSE /\ payload' = payload
          /\ history' = Append(history, Stage("parse", FALSE))
          /\ phase' = "done"
          /\ out' = Ended("Could not parse bot output as JSON")
  /\ UNCHANGED <<plan, remote0, remote, trace, jtrace>>

\* try: result = translator.execute(command); print(json.dumps(result))
\* except Exception as e: print("Error executing command:", e)
ExecuteCommand ==
  /\ phase = "parsed"
  /\ \E p \in 0..MaxChatPlan :
        LET r == execute(payload, remote, p)
        IN /\ Carried(r, p)
           /\ plan' = p
           /\ remote' = r.c.remote
           /\ trace' = trace \o r.c.trace
           /\ jtrace' = jtrace \o [j \in DOMAIN r.c.jtrace |->
                                     [r.c.jtrace[j] EXCEPT !.caller = @ + Len(trace)]]
           /\ history' = Append(history, Stage("execute", r.out.status = "returned"))
           /\ phase' = "done"
           /\ out' = [status |-> "returned", exc |-> "",
                      msg |-> IF r.out.status = "returned" THEN "JIRA result"
                              ELSE "Error executing command",
                      value |-> r.out.value]
           /\ UNCHANGED <<payload, remote0>>

ChatNext == ChatEmpty \/ FetchTasks \/ AskGemini \/ ParseReply \/ ExecuteCommand
ChatSpec == Init /\ [][ChatNext]_vars

(***************************************************************************)
(* Properties                                                              *)
(***************************************************************************)
Done == phase = "done"
\* The document of the command (no key when the payload is no document)
Data == _parse_payload(payload).data
\* The payload is a document: a mapping, or a text that parses to an object
IsDocument == ~_parse_payload(payload).err.raised /\ _parse_payload(payload).dict
\* The command kind of the executed document ("" when type is no string)
Kind == IF IsStr(Data["type"]) THEN Lower(Data["type"].s) ELSE ""
RefKinds == {"edit", "getissue", "getcomments", "gettransitions"}
Synonyms == {"issueKey", "key", "issue"}

Returned == out.status = "returned"
Succeeded == Returned /\ out.value.ok
Failed == Returned /\ ~out.value.ok
RaisedValidation == out.status = "raised" /\ out.exc = "ValueError"
\* A request of this execute() was rejected by the remote service
SomeRejected == \E i \in DOMAIN jtrace : ~jtrace[i].ok
LastRequest == jtrace[Len(jtrace)]
TraceOps == [i \in DOMAIN trace |-> trace[i].op]

\* A field the kind requires is missing from the document or is no string
RequiredMissing ==
  \/ Kind = "create" /\ (~IsStr(Data["project"]) \/ ~IsStr(Data["summary"]))
  \/ Kind \in RefKinds /\ \A k \in Synonyms : ~IsStr(Data[k])
  \/ Kind = "search" /\ ~IsStr(Data["jql"])
  \/ Kind = "getprojectissues" /\ ~IsStr(Data["project"])

\* C1: an execute() on a document that omits a field its kind requires, or
\* gives it a value that is no string, ends with a validation error, and no
\* remote call was made.
C1_RequiredFieldMissing ==
  (Done /\ RequiredMissing) =>
     (RaisedValidation /\ trace = <<>> /\ jtrace = <<>> /\ remote = remote0)

C1_Witness ==
  /\ Done /\ Kind = "edit" /\ RequiredMissing
  /\ IsStr(Data["summary"]) /\ IsDict(Data["fields"])
  /\ RaisedValidation /\ trace = <<>>

\* C2: whenever execute() ends by raising a local validation error, it has
\* made no remote call.
C2_NoCallsBeforeValidationError ==
  (Done /\ RaisedValidation) => (trace = <<>> /\ jtrace = <<>>)

\* C3: if the remote service rejects a remote call of the command, whatever
\* the kind and whichever the call, execute() returns an envelope with
\* ok = false and raises nothing.
C3_RejectionReturnsEnvelope ==
  (Done /\ SomeRejected) => (Returned /\ out.value.ok = FALSE)

C3_Witness ==
  /\ Done /\ Kind = "edit" /\ SomeRejected
  /\ LastRequest.op = "transition_issue" /\ Len(trace) > 1
  /\ Returned /\ out.value.ok = FALSE

\* C4 as stated: the envelope returned after a remote failure has the error
\* field "RemoteError".
C4_ErrorIsRemoteError ==
  (Done /\ SomeRejected /\ Returned) => out.value.error = "RemoteError"

\* C4, amended: the envelope returned after a remote failure is exactly
\* {ok: false, error: "JIRAError", status_code, message} with the status code
\* and the message of the rejected request.
C4_ErrorEnvelopeShape ==
  (Done /\ SomeRejected) =>
     /\ Returned
     /\ DOMAIN out.value = {"ok", "error", "status_code", "message"}
     /\ out.value.ok = FALSE
     /\ out.value.error = "JIRAError"
     /\ out.value.status_code = LastRequest.code
     /\ out.value.message = StrError(JIRAError(LastRequest.code, LastRequest.text))

C4_Witness ==
  /\ Done /\ Kind = "create" /\ SomeRejected /\ Len(jtrace) = 2
  /\ LastRequest.code = 400 /\ Returned /\ out.value.status_code = 400

\* The connector call op(args), as trace records it
TCall(op, args) == [op |-> op, args |-> args, jql |-> <<>>]
Opt(cond, seq) == IF cond THEN seq ELSE <<>>
IsPrefix(a, b) == Len(a) <= Len(b) /\ a = SubSeq(b, 1, Len(a))
Comments == _normalize_comments(Get(Data, "addComment"))
CommentCalls(key) ==
  [i \in DOMAIN Comments |-> TCall("add_comment", <<key, Comments[i]>>)]

\* The calls of a Create that makes a transition: create, transition, one
\* add-comment per normalized comment, fetch, all on the created issue
CreateCallsAfter(key) ==
  <<TCall("transition_issue", <<key, PyStr(Data["changeStatus"])>>)>>
    \o CommentCalls(key) \o <<TCall("get_issue", <<key>>)>>

\* C5 as stated: a Create in which changeStatus and addComment are both
\* present and no call fails makes exactly the calls create, transition,
\* add-comment per normalized comment, fetch, in this order.
C5_CreateOrderWhenPresent ==
  (Done /\ Kind = "create" /\ Succeeded
     /\ Has(Data, "changeStatus") /\ Has(Data, "addComment")) =>
     /\ trace # <<>> /\ trace[1].op = "create_issue"
     /\ Tail(trace) = CreateCallsAfter(out.value.issue.key)

\* C5, amended: a Create in which changeStatus is a string and addComment is
\* present, and in which no call fails, makes exactly the calls create,
\* transition, add-comment per normalized comment in input order, fetch, in
\* this order; the transition follows the creation directly.
C5_CreateOrder ==
  (Done /\ Kind = "create" /\ Succeeded
     /\ IsStr(Data["changeStatus"]) /\ Has(Data, "addComment")) =>
     /\ trace # <<>> /\ trace[1].op = "create_issue"
     /\ Tail(trace) = CreateCallsAfter(out.value.issue.key)

C5_Witness ==
  /\ Done /\ Kind = "create" /\ Succeeded
  /\ IsStr(Data["changeStatus"]) /\ Len(Comments) = 2
  /\ TraceOps = <<"create_issue", "transition_issue", "add_comment",
                  "add_comment", "get_issue">>

\* The calls of an Edit on the issue key when the actions in the set
\* applied are the ones to apply
EditCalls(key, applied) ==
  Opt("summary" \in applied,
      <<TCall("update_summary", <<key, PyStr(Data["summary"])>>)>>)
  \o Opt("description" \in applied,
         <<TCall("update_description", <<key, PyStr(Data["description"])>>)>>)
  \o Opt("fields" \in applied,
         <<TCall("update_issue_fields", <<key, PyStr(Data["fields"])>>)>>)
  \o Opt("changeStatus" \in applied,
         <<TCall("transition_issue", <<key, PyStr(Data["changeStatus"])>>)>>)
  \o Opt("addComment" \in applied, CommentCalls(key))
  \o <<TCall("get_issue", <<key>>)>>

PresentKeys == {k \in Range(ActionKeys) : Has(Data, k)}
\* The optional actions the document asks for in a form the handler takes: a
\* string summary, description or changeStatus, a fields key, an addComment key
AppliedKeys ==
  {k \in PresentKeys : k \in {"summary", "description", "changeStatus"} => IsStr(Data[k])}

\* C6 as stated: a successful Edit makes one call per optional action whose
\* key is present in the document, in the order summary, description, fields,
\* status, comments, and then the fetch.
C6_EditOrderWhenPresent ==
  (Done /\ Kind = "edit" /\ Succeeded) =>
     trace = EditCalls(out.value.issue.key, PresentKeys)

\* C6, amended: a successful Edit makes its calls in the fixed order summary
\* update, description update, fields update, transition, add-comment per
\* normalized comment, fetch, whatever the order of the keys in the document;
\* summary, description and changeStatus are applied when they are strings,
\* fields and addComment when the key is present; nothing else is called.
C6_EditOrder ==
  (Done /\ Kind = "edit" /\ Succeeded) =>
     trace = EditCalls(out.value.issue.key, AppliedKeys)

C6_Witness ==
  /\ Done /\ Kind = "edit" /\ Succeeded /\ payload.order = Reverse(ActionKeys)
  /\ PresentKeys = Range(ActionKeys) /\ AppliedKeys = PresentKeys
  /\ TraceOps = <<"update_summary", "update_description", "update_issue_fields",
                  "transition_issue", "add_comment", "add_comment", "get_issue">>

ActionName(k) ==
  CASE k = "summary" -> "summary" [] k = "description" -> "description"
    [] k = "fields" -> "fields" [] k = "changeStatus" -> "status"
    [] OTHER -> "comments"
\* The names of the actions of the set keys, in the fixed order
ActionsOf(keys) ==
  LET F[i \in 0..Len(ActionKeys)] ==
        IF i = 0 THEN <<>>
        ELSE F[i - 1] \o Opt(ActionKeys[i] \in keys, <<ActionName(ActionKeys[i])>>)
  IN F[Len(ActionKeys)]

\* C7 as stated: the actions list of a successful Edit names exactly the
\* actions whose key is present in the document, in the fixed order.
C7_ActionsWhenPresent ==
  (Done /\ Kind = "edit" /\ Succeeded) => out.value.actions = ActionsOf(PresentKeys)

\* C7, amended: the actions list of a successful Edit names, in the order
\* summary, description, fields, status, comments, exactly: summary,
\* description, status when the document gives summary, description,
\* changeStatus as a string; fields when the fields key is present; comments
\* when addComment is present and normalizes to at least one comment.
ListedKeys == {k \in AppliedKeys : k = "addComment" => Comments # <<>>}
C7_Actions ==
  (Done /\ Kind = "edit" /\ Succeeded) => out.value.actions = ActionsOf(ListedKeys)

C7_Witness ==
  /\ Done /\ Kind = "edit" /\ Succeeded
  /\ PresentKeys = {"changeStatus"} /\ out.value.actions = <<"status">>

\* The effect of an accepted write request is in the remote state
AcceptedBodies(key) ==
  LET F[i \in 0..Len(jtrace)] ==
        IF i = 0 THEN <<>>
        ELSE F[i - 1] \o Opt(jtrace[i].op = "add_comment" /\ jtrace[i].ok
                               /\ jtrace[i].key = key, <<jtrace[i].val>>)
  IN F[Len(jtrace)]
Committed(j) ==
  CASE j.op = "create_issue" ->
         \E k \in Range(NewKeys) :
            /\ ~remote0[k].exists /\ remote[k].exists
            /\ remote[k].summary = j.val /\ remote[k].project = j.key
    [] j.op = "update" /\ j.field = "summary" -> remote[j.key].summary = j.val
    [] j.op = "update" /\ j.field = "description" ->
         remote[j.key].description = j.val
    [] j.op = "update" -> j.val = "{}" \/ remote[j.key].extra = j.val
    [] j.op = "transition_issue" -> remote[j.key].status = j.val
    [] j.op = "add_comment" ->
         remote[j.key].comments = remote0[j.key].comments \o AcceptedBodies(j.key)
    [] OTHER -> TRUE
ForwardOps ==
  IF Kind = "create"
    THEN <<"create_issue">>
           \o Opt(IsStr(Data["changeStatus"]), <<"transition_issue">>)
           \o [i \in DOMAIN Comments |-> "add_comment"] \o <<"get_issue">>
  ELSE LET calls == EditCalls("", AppliedKeys)
       IN [i \in DOMAIN calls |-> calls[i].op]

\* C8: when a step of a Create or an Edit fails, the effects of the steps
\* before it are still in the remote state after execute() has returned, and
\* the calls made are a prefix of the command's sequence (none undoes one).
C8_NotTransactional ==
  (Done /\ Kind \in {"create", "edit"} /\ Failed) =>
     /\ \A i \in DOMAIN jtrace : jtrace[i].ok => Committed(jtrace[i])
     /\ IsPrefix(TraceOps, ForwardOps)

C8_Witness ==
  /\ Done /\ Kind = "create" /\ Failed
  /\ TraceOps = <<"create_issue", "transition_issue", "add_comment", "add_comment">>
  /\ remote["N1"].exists /\ remote["N1"].status = "In Progress"
  /\ remote["N1"].comments = <<"a">>

\* C9: once a remote call of an execute() has failed, the execute() makes no
\* further remote call (it neither repeats the call nor goes on with the
\* steps left) and the failure is its outcome.
C9_NoCallAfterFailure ==
  Done =>
    \A i \in DOMAIN jtrace :
       ~jtrace[i].ok =>
          /\ i = Len(jtrace)
          /\ jtrace[i].caller = Len(trace)
          /\ Failed /\ out.value.status_code = jtrace[i].code

C9_Witness ==
  /\ Done /\ Kind = "edit" /\ Failed /\ Len(Comments) = 2
  /\ trace[Len(trace)] = TCall("add_comment", <<"K1", "a">>)
  /\ ~LastRequest.ok /\ Len(trace) > 1

\* The document with the issue reference moved to the synonym k
Moved(k) ==
  LET v == CHOOSE x \in {Data[s] : s \in Synonyms} : x # Absent
  IN [d \in AllKeys |-> IF d = k THEN v ELSE IF d \in Synonyms THEN Absent ELSE Data[d]]
OneSynonym == Cardinality({s \in Synonyms : Has(Data, s)}) = 1

\* C10: Edit, GetIssue, GetComments and GetTransitions commands that differ
\* only in which of issueKey, key, issue carries the issue key make the same
\* remote calls with the same arguments in the same order and end the same
\* way, against the same remote state.
C10_SynonymsInterchangeable ==
  (Done /\ Kind \in RefKinds /\ OneSynonym) =>
     \A k \in Synonyms :
        LET r == execute([payload EXCEPT !.data = Moved(k)], remote0, plan)
        IN /\ r.c.trace = trace /\ r.c.jtrace = jtrace
           /\ r.out = out /\ r.c.remote = remote

C10_Witness ==
  /\ Done /\ Kind = "edit" /\ OneSynonym /\ Data["issue"] = StrV("K1")
  /\ Succeeded /\ Len(trace) = 7

\* The value of the first of issueKey, key, issue that is present and not null
FirstNonNull ==
  IF Data["issueKey"].t \notin {"absent", "null"} THEN Data["issueKey"]
  ELSE IF Data["key"].t \notin {"absent", "null"} THEN Data["key"]
  ELSE IF Data["issue"].t \notin {"absent", "null"} THEN Data["issue"]
  ELSE Null

\* C11: the issue reference of an Edit, GetIssue, GetComments or
\* GetTransitions is the value of the first of issueKey, key, issue that is
\* not null: when that value is a string every remote call is on it (an empty
\* string included), and when it is no string the command ends with a
\* validation error and no call; a later synonym is never used instead.
C11_FirstNonNullWins ==
  (Done /\ Kind \in RefKinds) =>
     IF IsStr(FirstNonNull)
       THEN /\ \A i \in DOMAIN trace : trace[i].args[1] = FirstNonNull.s
            /\ trace # <<>> \/ (RaisedValidation /\ Kind = "edit")
     ELSE RaisedValidation /\ trace = <<>>

\* The add-comment calls of the command, in the order they were made
AddCommentCalls == SelectSeq(trace, LAMBDA c : c.op = "add_comment")
\* The comment bodies the document asks for: the string itself, the elements
\* of the list in list order, none for null or a missing key
ExpectedBodies ==
  CASE Data["addComment"].t = "str" -> <<Data["addComment"].s>>
    [] Data["addComment"].t = "list" ->
         [i \in DOMAIN Data["addComment"].items |-> Data["addComment"].items[i].s]
    [] Data["addComment"].t \in {"null", "absent"} -> <<>>
    [] OTHER -> <<Data["addComment"].s>>

\* C12: a Create or an Edit in which no call fails makes exactly one
\* add-comment call per comment of the document, in input order: one call with
\* body x for the string x, one call per element in list order for a list, no
\* call for null or a missing addComment; every call is on the command's issue.
C12_CommentCalls ==
  (Done /\ Kind \in {"create", "edit"} /\ Succeeded) =>
     AddCommentCalls =
       [i \in DOMAIN ExpectedBodies |->
          TCall("add_comment", <<out.value.issue.key, ExpectedBodies[i]>>)]

C12_Witness ==
  /\ Done /\ Kind = "create" /\ Succeeded
  /\ Data["addComment"] = ListV(<<StrV("a"), StrV("b")>>)
  /\ AddCommentCalls = <<TCall("add_comment", <<"N1", "a">>),
                         TCall("add_comment", <<"N1", "b">>)>>
  /\ remote["N1"].comments = <<"a", "b">>

\* C13: _normalize_comments() gives the empty sequence for null, the
\* one-element sequence of the string for a string, for a list the sequence of
\* the same length whose i-th element is the string form of the i-th element
\* (empty strings are kept, nothing is dropped or moved), and for any other
\* scalar the one-element sequence of its string form.
C13_Normalization ==
  Done =>
    /\ Data["addComment"].t = "null" => out.value.comments = <<>>
    /\ Data["addComment"].t = "str" => out.value.comments = <<Data["addComment"].s>>
    /\ Data["addComment"].t = "list" =>
         /\ Len(out.value.comments) = Len(Data["addComment"].items)
         /\ \A i \in DOMAIN Data["addComment"].items :
               out.value.comments[i] = PyStr(Data["addComment"].items[i])
    /\ Data["addComment"].t \in {"num", "obj"} =>
         out.value.comments = <<PyStr(Data["addComment"])>>

C13_Witness ==
  /\ Done
  /\ Data["addComment"] = ListV(<<StrV(""), NumV("7"), StrV("a")>>)
  /\ out.value.comments = <<"", "7", "a">>

CommandKinds ==
  {"create", "edit", "getissue", "search", "getprojectissues",
   "getmyopenissues", "getcomments", "gettransitions"}
\* The document with its type written as s
Respelled(s) == [payload EXCEPT !.data["type"] = StrV(s)]

\* The calls, the requests and the outcome of an execute()
Ends(r) == <<r.c.trace, r.c.jtrace, r.out>>

\* C14: documents that differ only in the letter case of type make the same
\* remote calls and end with the same envelope or error, against the same
\* remote state; a document whose type is a string that is none of the 8
\* kinds in any letter case ends with the unsupported-command error, and no
\* remote call was made.
C14_KindMatching ==
  Done =>
    /\ Kind \in CommandKinds =>
         \A s \in Spellings(Kind) :
            Ends(execute(Respelled(s), remote0, plan)) = <<trace, jtrace, out>>
    /\ (IsStr(Data["type"]) /\ Kind \notin CommandKinds) =>
         /\ out.status = "raised" /\ out.exc = "ValueError"
         /\ out.msg = "Unsupported command type"
         /\ trace = <<>> /\ jtrace = <<>> /\ remote = remote0

C14_Witness ==
  /\ Done /\ Data["type"] = StrV("EDIT") /\ Succeeded
  /\ out.value.type = "Edit" /\ out.value.issue.status = "In Progress"
  /\ TraceOps = <<"update_summary", "transition_issue", "add_comment", "get_issue">>

C14_WitnessUnsupported ==
  /\ Done /\ Data["type"] = StrV("Delete")
  /\ out.status = "raised" /\ out.msg = "Unsupported command type" /\ trace = <<>>

\* C15: an execute() on a document whose type is missing or is not a string
\* ends with the validation error of execute() itself, whatever else the
\* document carries: no handler ran and no remote call was made.
C15_TypeRequired ==
  (Done /\ IsDocument /\ ~IsStr(Data["type"])) =>
     /\ RaisedValidation
     /\ out.msg = "Command must include string field type."
     /\ trace = <<>> /\ jtrace = <<>> /\ remote = remote0

C15_Witness ==
  /\ Done /\ Data["type"] = NumV("5")
  /\ Data["issueKey"] = StrV("K1") /\ Data["summary"] = StrV("s1")
  /\ RaisedValidation /\ trace = <<>>

\* The command cannot be carried out whatever the remote service answers:
\* the payload is no document, the type is no string or no kind, a required
\* field is missing or the issue reference resolved is no string, fields is
\* no object, or maxResults is no number
LocalError ==
  \/ ~IsDocument
  \/ ~IsStr(Data["type"])
  \/ Kind \notin CommandKinds
  \/ RequiredMissing
  \/ Kind \in RefKinds /\ ~IsStr(EditIssueKey(Data))
  \/ Kind = "create" /\ ~IsDict(Or(Get(Data, "fields"), ObjV("{}")))
  \/ Kind = "edit" /\ Has(Data, "fields") /\ ~IsDict(Data["fields"])
  \/ Kind \in {"search", "getprojectissues", "getmyopenissues"}
       /\ IntErr(MaxResults(Data)).raised
LocalExceptions == {"ValueError", "TypeError", "JSONDecodeError", "AttributeError"}

\* C16: execute() returns an envelope with ok = false exactly when the remote
\* service rejected a remote call of the command; a parse error, a validation
\* error or an unsupported-command error is never returned as an envelope: it
\* is raised to the caller.
C16_OnlyRemoteFailureRecovered ==
  Done =>
    /\ Failed <=> SomeRejected
    /\ Failed => out.value.error = "JIRAError"
    /\ (LocalError /\ ~SomeRejected) =>
         (out.status = "raised" /\ out.exc \in LocalExceptions)
    /\ out.status = "raised" => (LocalError /\ out.exc \in LocalExceptions)

C16_Witness ==
  /\ Done /\ payload.kind = "text" /\ payload.text = <<"get", " ", "K1">>
  /\ out.status = "raised" /\ out.exc = "JSONDecodeError" /\ trace = <<>>

\* Text payloads end as their documents do
C16_WitnessTexts ==
  /\ Done /\ payload.kind = "text"
  /\ \/ payload.text = <<"5">> /\ out.exc = "AttributeError"
     \/ payload.text = <<"'", "GetIssue", "'">> /\ out.exc = "AttributeError"

\* The name of the kind in a success envelope, and the keys of the envelope
CanonicalName(kind) ==
  CASE kind = "create" -> "Create" [] kind = "edit" -> "Edit"
    [] kind = "getissue" -> "GetIssue" [] kind = "search" -> "Search"
    [] kind = "getprojectissues" -> "GetProjectIssues"
    [] kind = "getmyopenissues" -> "GetMyOpenIssues"
    [] kind = "getcomments" -> "GetComments"
    [] kind = "gettransitions" -> "GetTransitions"
    [] OTHER -> ""
EnvelopeKeys(kind) ==
  {"ok", "type"} \cup
    CASE kind \in {"create", "getissue"} -> {"issue"}
      [] kind = "edit" -> {"issue", "actions"}
      [] kind = "search" -> {"jql", "total", "issues"}
      [] kind = "getprojectissues" -> {"project", "status", "total", "issues"}
      [] kind = "getmyopenissues" -> {"total", "issues"}
      [] kind = "getcomments" -> {"issueKey", "total", "comments"}
      [] kind = "gettransitions" -> {"issueKey", "transitions"}
      [] OTHER -> {}
ProjectionKeys ==
  {"key", "id", "summary", "description", "status", "assignee", "reporter", "project"}
SuccessEnvelope ==
  /\ out.value.ok = TRUE
  /\ Kind \in CommandKinds
  /\ DOMAIN out.value = EnvelopeKeys(Kind)
  /\ out.value.type = CanonicalName(Kind)
  /\ "issue" \in DOMAIN out.value => DOMAIN out.value.issue = ProjectionKeys
  /\ "issues" \in DOMAIN out.value =>
        \A i \in DOMAIN out.value.issues : DOMAIN out.value.issues[i] = ProjectionKeys
  /\ \A i \in DOMAIN jtrace : jtrace[i].ok
FailureEnvelope ==
  /\ out.value.ok = FALSE
  /\ DOMAIN out.value = {"ok", "error", "status_code", "message"}
  /\ SomeRejected

\* C17: an execute() ends in exactly one way, a returned envelope or a raised
\* error; a returned envelope is either the success envelope of the kind
\* (ok = true, type the canonical kind name, all keys of the kind's payload,
\* every remote call accepted) or the failure envelope (ok = false with error,
\* status_code and message, after a rejected call), and nothing in between.
C17_OneCompleteOutcome ==
  Done =>
    /\ out.status \in {"returned", "raised"}
    /\ out.status = "raised" => (out.exc # "" /\ out.value = NoValue)
    /\ out.status = "returned" =>
         /\ out.exc = ""
         /\ SuccessEnvelope \/ FailureEnvelope

C17_Witness ==
  /\ Done /\ Kind = "getprojectissues" /\ Returned /\ SuccessEnvelope
  /\ out.value.total = 1 /\ out.value.type = "GetProjectIssues"

C17_WitnessFailure ==
  /\ Done /\ Kind = "edit" /\ Returned /\ FailureEnvelope
  /\ Len(trace) = 3 /\ remote # remote0

\* The requests that write to the remote state
WriteOps == {"create_issue", "update", "transition_issue", "add_comment"}
\* The i-th execute() of the history was a Create that succeeded, and no
\* request of an execute() after it wrote to the remote state
CreatedAt(i) ==
  /\ history[i].out.status = "returned" /\ history[i].out.value.ok
  /\ history[i].out.value.type = "Create"
  /\ \A j \in (i + 1)..Len(history) :
        \A n \in DOMAIN history[j].jtrace : history[j].jtrace[n].op \notin WriteOps

\* C18: a GetIssue on the key of an issue that a successful Create has
\* returned, executed after the Create with no write to the remote state in
\* between and not refused by the remote service, succeeds and returns the
\* projection the Create returned, equal in all of its 8 fields.
C18_RoundTrip ==
  Done =>
    \A i \in DOMAIN history :
       (/\ CreatedAt(i) /\ Kind = "getissue" /\ plan = 0
        /\ Data["issueKey"] = StrV(history[i].out.value.issue.key)) =>
          /\ Succeeded
          /\ DOMAIN out.value.issue = ProjectionKeys
          /\ out.value.issue = history[i].out.value.issue

C18_Witness ==
  /\ Done /\ Len(history) = 1 /\ CreatedAt(1) /\ Kind = "getissue" /\ plan = 0
  /\ Data["issueKey"] = StrV("N1")
  /\ history[1].out.value.issue.status = "In Progress"
  /\ Len(history[1].trace) = 4
  /\ Succeeded /\ out.value.issue.status = "In Progress" /\ out.value.issue.key = "N1"

\* The last request of the command is a fetch of the issue, made by the last
\* connector call, and every write request was made before it
FetchedLast ==
  /\ jtrace # <<>> /\ trace # <<>>
  /\ LastRequest.op = "issue" /\ LastRequest.caller = Len(trace)
  /\ trace[Len(trace)].op = "get_issue"
  /\ \A i \in 1..(Len(jtrace) - 1) : jtrace[i].caller < Len(trace)

\* C19: the issue of the envelope of a successful Create or Edit is the
\* projection of the issue as a fetch made after all the writes of the
\* command returns it, so it is the issue of the remote state the command
\* leaves behind: it shows the transition, the summary, the description and
\* the comments the command applied.
C19_ProjectionAfterWrites ==
  (Done /\ Kind \in {"create", "edit"} /\ Succeeded) =>
     /\ FetchedLast
     /\ LastRequest.key = out.value.issue.key
     /\ out.value.issue = _serialize_issue(IssueObject(remote, out.value.issue.key))
     /\ IsStr(Data["changeStatus"]) =>
          out.value.issue.status = Data["changeStatus"].s
     /\ IsStr(Data["summary"]) => out.value.issue.summary = Data["summary"].s
     /\ IsStr(Data["description"]) =>
          out.value.issue.description = Data["description"].s

C19_Witness ==
  /\ Done /\ Kind = "create" /\ Succeeded
  /\ Data["changeStatus"] = StrV("In Progress") /\ Data["description"] = StrV("d1")
  /\ out.value.issue.status = "In Progress" /\ out.value.issue.description = "d1"
  /\ TraceOps = <<"create_issue", "transition_issue", "add_comment", "get_issue">>

C19_WitnessEdit ==
  /\ Done /\ Kind = "edit" /\ Succeeded /\ remote0["K1"].status = "To Do"
  /\ Data["changeStatus"] = StrV("In Progress") /\ Data["summary"] = StrV("s1")
  /\ out.value.issue.status = "In Progress" /\ out.value.issue.summary = "s1"

\* The issues the remote service returns for the search of the command
Found == Limit(Select(remote, LastRequest.jql, 1), IntOf(LastRequest.val))

C20_WitnessLimit ==
  /\ Done /\ Kind = "getprojectissues" /\ Succeeded
  /\ Data["maxResults"] = NumV("1") /\ Len(Select(remote, LastRequest.jql, 1)) = 2
  /\ out.value.total = 1 /\ out.value.issues[1].key = "K1"

\* C21: a Search makes exactly one remote search whose query is the jql of
\* the document, unchanged, with maxResults 50 when the document gives none
\* (its value otherwise); the envelope gives the number of issues the search
\* returned (the field total) and their projections in the order returned.
C21_Search ==
  (Done /\ Kind = "search" /\ Returned) =>
     /\ Len(trace) = 1 /\ Len(jtrace) = 1 /\ jtrace[1].op = "search_issues"
     /\ trace[1].jql = <<Data["jql"].s>>
     /\ jtrace[1].jql = <<Data["jql"].s>>
     /\ jtrace[1].field = "maxResults"
     /\ jtrace[1].val = IF Has(Data, "maxResults") THEN PyStr(Data["maxResults"])
                        ELSE "50"
     /\ Succeeded =>
          /\ out.value.jql = Data["jql"].s
          /\ out.value.total = Len(Found)
          /\ out.value.issues = [i \in DOMAIN Found |-> _serialize_issue(Found[i])]
          /\ remote = remote0

C21_Witness ==
  /\ Done /\ Kind = "search" /\ Succeeded /\ ~Has(Data, "maxResults")
  /\ jtrace[1].jql = <<"reporter = currentUser()">> /\ jtrace[1].val = "50"
  /\ out.value.total = 2
  /\ out.value.issues[1].key = "K1" /\ out.value.issues[2].key = "N1"

\* C22: a GetTransitions command that returns an envelope made exactly one
\* connector call and one list-transitions request, for the issue of the
\* document; when it succeeds the envelope's transitions are the ones of the
\* status the issue has on the remote service now, whatever the commands
\* executed before it did
C22_TransitionsLive ==
  (Done /\ Kind = "gettransitions" /\ Returned) =>
     /\ TraceOps = <<"available_transitions">>
     /\ Len(jtrace) = 1
     /\ jtrace[1].op = "transitions"
     /\ jtrace[1].key = GetTransitionsIssueKey(Data).s
     /\ Succeeded =>
          /\ out.value.issueKey = jtrace[1].key
          /\ out.value.transitions = Workflow(remote[jtrace[1].key].status)
          /\ remote = remote0
\* An Edit moved K1 to another status and the GetTransitions after it lists
\* the transitions of the new status, not those of the status before the Edit
C22_Witness ==
  /\ Done /\ Kind = "gettransitions" /\ Succeeded
  /\ Len(history) = 1
  /\ history[1].out.status = "returned" /\ history[1].out.value.ok
  /\ history[1].out.value.type = "Edit"
  /\ jtrace[1].key = "K1"
  /\ history[1].remote0["K1"].status # remote["K1"].status
  /\ out.value.transitions # Workflow(history[1].remote0["K1"].status)
  /\ out.value.transitions = Workflow(remote["K1"].status)
\* A Create made N1 and moved it to In Progress; the GetTransitions after it
\* lists the transitions of In Progress
C22_WitnessCreate ==
  /\ Done /\ Kind = "gettransitions" /\ Succeeded
  /\ Len(history) = 1
  /\ history[1].out.status = "returned" /\ history[1].out.value.ok
  /\ history[1].out.value.type = "Create"
  /\ jtrace[1].key = "N1"
  /\ remote["N1"].status = "In Progress"
  /\ out.value.transitions = Workflow("In Progress")
  /\ out.value.transitions # Workflow("To Do")

\* The two readings of a text payload: as it is, and with every single quote
\* replaced by a double quote
StrictReading == json_loads(Strip(payload.text))
FixedReading == json_loads(ReplaceQuotes(Strip(payload.text)))
\* The mapping a text payload parses to, given to execute() as a mapping
ParsedMapping == DictPayload(Data, ActionKeys)

\* C23: execute() uses a mapping as the command unchanged; it reads a text as
\* JSON, and only a text that is no JSON is read again with its single quotes
\* replaced by double quotes; when both readings fail the parse error reaches
\* the caller and nothing was called on the remote service; a text that
\* parses to a mapping ends as that mapping does, call by call
C23_PayloadParsing ==
  Done =>
    /\ payload.kind = "dict" =>
         /\ Data = payload.data
         /\ ~(out.status = "raised" /\ out.exc \in {"JSONDecodeError", "AttributeError"})
    /\ payload.kind = "text" =>
         /\ StrictReading.ok =>
              /\ IsDocument = StrictReading.dict
              /\ Data = Doc(StrictReading.f)
         /\ (~StrictReading.ok /\ FixedReading.ok) =>
              /\ IsDocument = FixedReading.dict
              /\ Data = Doc(FixedReading.f)
         /\ (~StrictReading.ok /\ ~FixedReading.ok) =>
              /\ out.status = "raised" /\ out.exc = "JSONDecodeError"
              /\ trace = <<>> /\ jtrace = <<>> /\ remote = remote0
         /\ IsDocument =>
              /\ Ends(execute(ParsedMapping, remote0, plan)) = <<trace, jtrace, out>>
              /\ execute(ParsedMapping, remote0, plan).c.remote = remote
\* An Edit written in single quotes is no JSON, is read again with double
\* quotes, and wrote the summary, the status and the comment as its mapping does
C23_Witness ==
  /\ Done /\ payload.kind = "text" /\ payload.text = EditText("'")
  /\ ~StrictReading.ok /\ FixedReading.ok
  /\ Data["summary"] = StrV("s1") /\ Data["key"] = StrV("K1")
  /\ Succeeded
  /\ TraceOps = <<"update_summary", "transition_issue", "add_comment", "get_issue">>
  /\ remote["K1"].summary = "s1" /\ remote["K1"].status = "In Progress"
\* A JSON text whose summary is an apostrophe is read as it is
C23_WitnessStrict ==
  /\ Done /\ payload.kind = "text" /\ StrictReading.ok /\ ~FixedReading.ok
  /\ Data["summary"] = StrV("'") /\ Succeeded /\ remote["K1"].summary = "'"
\* A text that is no JSON either way
C23_WitnessParseError ==
  /\ Done /\ payload.kind = "text" /\ payload.text = <<"{", "type", ":", "GetIssue", "}">>
  /\ out.status = "raised" /\ out.exc = "JSONDecodeError" /\ jtrace = <<>>

\* What a translator that never executed anything makes of a document, a
\* remote state and the request the remote service refuses
Fresh(pl, r0, p) == Ends(execute(pl, r0, p))
\* The execute() calls of the session so far, the current one last
Executed ==
  IF phase = "done"
    THEN Append(history, [payload |-> payload, plan |-> plan, remote0 |-> remote0,
                          trace |-> trace, jtrace |-> jtrace, out |-> out])
  ELSE history

C24_WitnessAfterInvalid ==
  /\ Done /\ Len(history) = 1
  /\ history[1].out.status = "raised"
  /\ Kind = "edit" /\ Succeeded /\ remote # remote0
C24_WitnessAfterFailed ==
  /\ Done /\ Len(history) = 1
  /\ history[1].out.status = "returned" /\ ~history[1].out.value.ok
  /\ Kind = "edit" /\ Succeeded /\ remote # remote0

QueryKinds ==
  {"getissue", "search", "getprojectissues", "getmyopenissues", "getcomments",
   "gettransitions"}
ReadOps == {"issue", "search_issues", "transitions"}
\* The command kind of a payload
KindOf(pl) ==
  IF IsStr(_parse_payload(pl).data["type"])
    THEN Lower(_parse_payload(pl).data["type"].s)
  ELSE ""
\* The execute() calls so far were all of query kinds
OnlyQueries == \A i \in DOMAIN Executed : KindOf(Executed[i].payload) \in QueryKinds

\* C25: an execute() of one of the six query kinds makes no create, update,
\* transition or add-comment request; when its document is valid (it returns
\* an envelope) it makes exactly one connector call and exactly one request,
\* a read; after a session of such commands the remote state is the one the
\* session started in
C25_QueriesReadOnly ==
  /\ \A i \in DOMAIN Executed :
        KindOf(Executed[i].payload) \in QueryKinds =>
          /\ \A j \in DOMAIN Executed[i].jtrace : Executed[i].jtrace[j].op \in ReadOps
          /\ Executed[i].out.status = "returned" =>
               /\ Len(Executed[i].trace) = 1
               /\ Len(Executed[i].jtrace) = 1
  /\ (Done /\ Kind \in QueryKinds) => remote = remote0
  /\ (Done /\ OnlyQueries) => remote = Executed[1].remote0
\* Two queries in a row, the second a GetComments on an issue that exists
C25_Witness ==
  /\ Done /\ Len(history) = 1 /\ OnlyQueries
  /\ history[1].out.status = "returned" /\ history[1].out.value.ok
  /\ Kind = "gettransitions" /\ Succeeded
  /\ Len(jtrace) = 1 /\ jtrace[1].op = "transitions" /\ jtrace[1].ok
  /\ remote = history[1].remote0
\* A GetComments after a Create reads the comments and leaves them alone
C25_WitnessComments ==
  /\ Done /\ Kind = "getcomments" /\ Succeeded /\ out.value.total = 1
  /\ Len(jtrace) = 1 /\ jtrace[1].op = "issue" /\ remote = remote0

\* The issues that exist after this execute() and did not before it
NewlyCreated == {k \in IssueKeys : ~Exists(remote0, k) /\ Exists(remote, k)}
\* The create request of this execute() was accepted
CreateAccepted ==
  /\ jtrace # <<>> /\ jtrace[1].op = "create_issue" /\ jtrace[1].ok

\* C26: in a Create whose create request was accepted, whether the command
\* then succeeds or fails at a later step, exactly one create request was made
\* and exactly one issue was created, and every request and connector call
\* after the create call names the key of that issue, whatever issueKey, key
\* or issue the document carries; a Create whose create request is rejected
\* creates nothing and makes no further request
C26_CreateTargetsCreated ==
  (Done /\ Kind = "create" /\ jtrace # <<>>) =>
     /\ jtrace[1].op = "create_issue"
     /\ \A j \in 2..Len(jtrace) : jtrace[j].op # "create_issue"
     /\ ~jtrace[1].ok => (Len(jtrace) = 1 /\ NewlyCreated = {} /\ remote = remote0)
     /\ jtrace[1].ok =>
          /\ Cardinality(NewlyCreated) = 1
          /\ \A j \in 2..Len(jtrace) : jtrace[j].key \in NewlyCreated
          /\ \A i \in 2..Len(trace) : trace[i].args[1] \in NewlyCreated
          /\ \A k \in IssueKeys \ NewlyCreated : remote[k] = remote0[k]
          /\ Succeeded => out.value.issue.key \in NewlyCreated
\* A Create whose document names K1 creates N1, moves N1 and comments on N1
C26_Witness ==
  /\ Done /\ Kind = "create" /\ Data["issueKey"] = StrV("K1") /\ Succeeded
  /\ NewlyCreated = {"N1"}
  /\ \E j \in DOMAIN jtrace : jtrace[j].op = "transition_issue" /\ jtrace[j].key = "N1"
  /\ \E j \in DOMAIN jtrace : jtrace[j].op = "add_comment" /\ jtrace[j].key = "N1"
  /\ out.value.issue.key = "N1" /\ remote["K1"] = remote0["K1"]
\* A Create that fails after the create request leaves one new issue
C26_WitnessPartial ==
  /\ Done /\ Kind = "create" /\ Data["issueKey"] = StrV("K1") /\ Failed
  /\ CreateAccepted /\ Len(jtrace) > 2 /\ NewlyCreated = {"N1"}

UpdateOps == {"update_summary", "update_description", "update_issue_fields"}
UpdateSteps == <<"issue", "update", "issue">>
\* The field an update operation writes and the value it was given
Written(issue) ==
  CASE trace[1].op = "update_summary" -> issue.summary
    [] trace[1].op = "update_description" -> issue.description
    [] OTHER -> IF trace[1].args[2] = "{}" THEN "{}" ELSE issue.extra

\* C27: a call of update_summary, update_description or update_issue_fields
\* makes its requests on the issue it was given in the order fetch, update,
\* fetch; a request is made only when the ones before it were accepted, so a
\* fetch or an update that fails ends the call with nothing written after it;
\* the call returns when all three were accepted, and what it returns is the
\* issue as the remote service holds it after the write
C27_UpdateRefetches ==
  (Done /\ trace # <<>> /\ trace[1].op \in UpdateOps /\ payload = NoPayload) =>
     /\ Len(trace) = 1
     /\ Len(jtrace) \in 1..3
     /\ \A j \in DOMAIN jtrace :
          /\ jtrace[j].op = UpdateSteps[j]
          /\ jtrace[j].key = trace[1].args[1]
          /\ j < Len(jtrace) => jtrace[j].ok
     /\ ~jtrace[1].ok => remote = remote0
     /\ (Len(jtrace) = 2 /\ ~jtrace[2].ok) => remote = remote0
     /\ (out.status = "returned") = (Len(jtrace) = 3 /\ jtrace[3].ok)
     /\ out.status = "raised" => (out.exc = "JIRAError" /\ ~jtrace[Len(jtrace)].ok)
     /\ out.status = "returned" =>
          /\ out.value = IssueObject(remote, trace[1].args[1])
          /\ Written(remote[trace[1].args[1]]) = trace[1].args[2]
\* update_summary returned K1 with the summary it wrote, which is not the one
\* K1 had when it was fetched
C27_Witness ==
  /\ Done /\ trace # <<>> /\ trace[1].op = "update_summary"
  /\ out.status = "returned" /\ trace[1].args = <<"K1", "s1">>
  /\ remote0["K1"].summary = "s0"
  /\ out.value.summary = "s1" /\ out.value # IssueObject(remote0, "K1")
\* The update is refused: the call ends there, nothing is written
C27_WitnessUpdateFails ==
  /\ Done /\ trace # <<>> /\ trace[1].op = "update_description"
  /\ Len(jtrace) = 2 /\ ~jtrace[2].ok /\ out.status = "raised" /\ remote = remote0
\* The fetch fails: no issue K2
C27_WitnessFetchFails ==
  /\ Done /\ trace # <<>> /\ trace[1].op = "update_issue_fields"
  /\ Len(jtrace) = 1 /\ jtrace[1].code = 404 /\ out.status = "raised"

ChatStages == <<"fetch", "ask", "parse", "execute">>
\* The stages of the flow run so far are the first n of the four
RanStages(n) ==
  /\ Len(history) = n
  /\ \A i \in 1..n : history[i].stage = ChatStages[i]
\* The calls the translator made: the ones after the search of the fetch
TranslatorCalls == SubSeq(trace, 2, Len(trace))

C28_WitnessFenced ==
  /\ phase = "done" /\ RanStages(4) /\ history[4].ok
  /\ out.msg = "JIRA result" /\ out.value.ok /\ out.value.type = "Edit"
  /\ remote["K1"].summary = "s1" /\ remote0["K1"].summary = "s0"
  /\ \E j \in DOMAIN jtrace : jtrace[j].op = "update"
\* The translator raises and the flow ends without an error
C28_WitnessExecuteRaises ==
  /\ phase = "done" /\ RanStages(4) /\ ~history[4].ok
  /\ out.msg = "Error executing command" /\ out.status = "returned"
\* The flow ends at the fetch, at the ask, and on an empty message
C28_WitnessFetchFails == phase = "done" /\ RanStages(1) /\ ~history[1].ok
C28_WitnessAskFails == phase = "done" /\ RanStages(2) /\ ~history[2].ok
C28_WitnessEmpty == phase = "done" /\ RanStages(0) /\ out.msg = "No message entered."

====
